---- MODULE Spec2Model ----
(***************************************************************************)
(* Trade executor (Trader), position ledger (Portfolio) and the bot's      *)
(* external-buy handler, modelled from the JavaScript sources.             *)
(*                                                                         *)
(* JavaScript runs one callback at a time: the code between two awaits is  *)
(* one atomic step.  Every action below is one such stretch of code; the   *)
(* pc fields name the await at which a call is suspended.                  *)
(***************************************************************************)
EXTENDS Integers, Sequences, FiniteSets, TLC

\* ---------------------------------------------------------------- bounds
MaxAmount == 1      \* largest share amount of one sell request
MaxBuys   == 1      \* buyToken calls made in one behaviour
MaxSells  == 2      \* sellToken requests made in one behaviour
MaxInitAmount == 1  \* largest holding found in portfolio.json at start
MaxBlock  == 2      \* highest block of a delivered Trade event
MaxErrors == 7      \* provider errors counted since the last network event
MaxTimers == 6      \* reconnect timers pending at one time
MaxDuplicates == 1  \* duplicate deliveries counted
MaxImmediates == 4  \* setImmediate callbacks scheduled and not yet run
MaxPasses == 2      \* scanOnce passes run in one behaviour
MaxNow    == 1      \* minutes that pass in one behaviour
MaxProbes == 1      \* checkConnection calls awaiting at one time

Tokens      == {"0xaa", "0xbb"}
BuyCallers  == 1..MaxBuys
SellCallers == 1..MaxSells
Self        == "wallet"
Traders     == {Self, "other"}
\* amount of one buy: the default of buyToken's amount parameter
BuyAmount == 1
\* config.autoSellOnOthersBuy, the switch of onExternalBuyDetected
autoSellOnOthersBuy == TRUE

\* JS null for the amount parameter of sellToken (amount = null)
NullAmount == -1
\* JS null for a txHash field
NullTx == 0
\* tx.hash: a call submits at most one transaction, and the chain gives every
\* transaction its own hash
BuyTxHash(c) == c
SellTxHash(c) == MaxBuys + c

\* ------------------------------------------------------ provider errors
\* Phrases the code searches for in a lower-cased provider message.
PhraseLastShare == "cannot sell the last share"
PhraseInsufficientShares == "insufficient shares"

MsgLastShare == "execution reverted: Cannot sell the last share"
MsgInsufficientShares == "execution reverted: Insufficient shares"
MsgNetwork == "network error"
MsgFunds == "insufficient funds for intrinsic transaction cost"
MsgGas == "cannot estimate gas"

\* msg.toLowerCase().includes(phrase), tabulated for the messages above
Includes(msg, phrase) ==
  \/ msg = MsgLastShare /\ phrase = PhraseLastShare
  \/ msg = MsgInsufficientShares /\ phrase = PhraseInsufficientShares
  \/ msg = "Insufficient shares" /\ phrase = PhraseInsufficientShares

ErrLastShare == [code |-> "CALL_EXCEPTION", message |-> MsgLastShare]
ErrInsufficientShares == [code |-> "CALL_EXCEPTION", message |-> MsgInsufficientShares]
ErrNetwork == [code |-> "NETWORK_ERROR", message |-> MsgNetwork]
ErrFunds == [code |-> "INSUFFICIENT_FUNDS", message |-> MsgFunds]
ErrGas == [code |-> "UNPREDICTABLE_GAS_LIMIT", message |-> MsgGas]

\* what estimateGas / sellShares / tx.wait may throw for a sell
SellErrors == {ErrLastShare, ErrInsufficientShares, ErrNetwork, ErrFunds}
\* what getFeeData / sendTransaction / tx.wait may throw for a buy
BuyErrors == {ErrFunds, ErrGas, ErrNetwork}

\* ------------------------------------------------------- result objects
\* The source strings are Chinese; each is given here by an ASCII name.
ErrBusy == "busy: a trade is in progress"
ErrRolledBack == "transaction rolled back"
ErrNoHolding == "token not held"
ErrHoldingShort == "holding too small"
ErrBuyFunds == "balance too low"
ErrBuyGas == "cannot predict gas limit"
ErrSellFunds == "balance too low to pay gas"
ErrInsufficient == "Insufficient shares"
NoError == ""

NoResult == [shape |-> "none"]
\* the bare value false
BareFalse == [shape |-> "false"]
Failure(e) == [shape |-> "object", success |-> FALSE, error |-> e, txHash |-> NullTx]
Success(h) == [shape |-> "object", success |-> TRUE, error |-> NoError, txHash |-> h]

\* --------------------------------------------------------------- ledger
\* portfolio.json: token -> totalAmount; a token without entry is not in
\* the domain.
getTokenAmount(p, t) == IF t \in DOMAIN p THEN p[t] ELSE 0

addToken(p, t, a) ==
  [k \in DOMAIN p \cup {t} |-> IF k = t THEN getTokenAmount(p, t) + a ELSE p[k]]

\* removeToken returns false without saving when the entry is missing or
\* holds less than amount
removeTokenOk(p, t, a) == t \in DOMAIN p /\ ~(p[t] < a)

\* a removeToken without the delete of an entry that reaches 0
removeTokenNoDelete(p, t, a) == [p EXCEPT ![t] = @ - a]

removeToken(p, t, a) ==
  IF p[t] - a = 0
    THEN [k \in DOMAIN p \ {t} |-> p[k]]
    ELSE [p EXCEPT ![t] = @ - a]

Ledgers(maxAmt) == UNION {[S -> 1..maxAmt] : S \in SUBSET Tokens}

\* ---------------------------------------------------------------- state
VARIABLES
  isTrading,              \* Trader.isTrading
  sellQueue,              \* Trader.sellQueue: jobs {id, tokenAddress, amount}
  isProcessingSellQueue,  \* Trader.isProcessingSellQueue
  worker,                 \* the running _processSellQueue call
  buy,                    \* the buyToken calls of the behaviour, in call order
  buyRet,                 \* the value the latest finished buyToken call returned
  sell,                   \* the sellToken promises of the behaviour, in call order
  portfolio,              \* contents of portfolio.json
  deferred,               \* keys of deferredSell.json
  net,                    \* per token: initial holding + confirmed buys - confirmed sells
  \* ContractMonitor and the TokenBot that starts it
  isRunning,              \* TokenBot.isRunning
  isMonitoring,           \* ContractMonitor.isMonitoring
  processedEvents,        \* ContractMonitor.processedEvents: ids of events seen
  duplicates,             \* deliveries dropped because their id was seen before
  lastProcessedBlock,     \* ContractMonitor.lastProcessedBlock
  lastBlockFile,          \* lastBlock of data/lastBlock.json
  blockWrites,            \* block numbers of the writeJson calls not yet finished
  reconnectAttempts,      \* ContractMonitor.reconnectAttempts
  reconnectTimers,        \* pending setTimeout callbacks of the provider error handler
  errorsSinceNetwork,     \* provider errors reported since the last network event
  immediates,             \* callbacks scheduled with setImmediate, in order
  newTokenCalls,          \* per event id: invocations of onNewToken
  externalBuyCalls,       \* per event id: invocations of onExternalBuy
  subs,                   \* listeners and timers the monitor has registered
  \* candidate store and TokenScanner
  candidates,             \* rows of the candidates table, by lower-case address
  scans,                  \* the scanOnce passes of the behaviour
  now,                    \* Date.now(), in minutes
  buyCalls,               \* the buyToken calls made by the scanner, in order
  requireBlueVerification, \* config.requireBlueVerification as the scanner reads it
  \* Trader.sellAllTokens
  sellAll,                \* the sellAllTokens call of the behaviour
  \* the auto-sell script
  sweep                   \* the running callback of its setInterval

traderVars == <<isTrading, sellQueue, isProcessingSellQueue, worker, buy, buyRet,
                sell, portfolio, deferred, net>>

monitorVars == <<isRunning, isMonitoring, processedEvents, duplicates, lastProcessedBlock,
                 lastBlockFile, blockWrites, reconnectAttempts, reconnectTimers,
                 errorsSinceNetwork, immediates, newTokenCalls, externalBuyCalls,
                 subs>>

scannerVars == <<candidates, scans, now, buyCalls, requireBlueVerification>>

batchVars == <<sellAll, sweep>>

vars == <<traderVars, monitorVars, scannerVars, batchVars>>

EmptyLedger == [k \in {} |-> 0]
NoJob == [id |-> 0, tokenAddress |-> "", amount |-> 0]
NoErr == [code |-> "", message |-> ""]
WorkerOff == [pc |-> "off", job |-> NoJob, snap |-> EmptyLedger, err |-> NoErr]
BuyIdle == [pc |-> "idle", tokenAddress |-> "", amount |-> 0, snap |-> EmptyLedger]
\* concurrent records whether another request was still unresolved when
\* sellToken was called
SellIdle == [pc |-> "idle", ret |-> NoResult, concurrent |-> FALSE,
             tokenAddress |-> "", amount |-> 0, snap |-> EmptyLedger]
\* sellAllTokens not called yet: tokens is what getAllTokens returned,
\* callers the sellToken calls made so far, results the array returned
SellAllIdle == [pc |-> "idle", tokens |-> <<>>, callers |-> <<>>, results |-> <<>>]
\* the auto-sell callback not running (running = false): list is what is
\* left of boughtCandidates, at the value of now, caller the awaited sellToken
SweepIdle == [pc |-> "idle", list |-> <<>>, at |-> 0, caller |-> 0]

\* ------------------------------------------------------- Trade events
\* a transaction is named by the block that holds it; an event id is the
\* pair the monitor joins into `${txHash}-${index}`
TxHashes == 1..MaxBlock
LogIndexes == {0, 1}
EventIds == TxHashes \X LogIndexes
BlockNumber(txHash) == txHash
eventId(txHash, index) == <<txHash, index>>

\* addresses as events deliver them (EIP-55 letter case) and their
\* lower-case forms, which are the members of Tokens
Addresses == {"0xAa", "0xBb"}

toLowerCase(a) ==
  CASE a = "0xAa" -> "0xaa"
    [] a = "0xBb" -> "0xbb"
    [] OTHER -> a

\* ethers.getAddress: the EIP-55 form of an address in any letter case
getAddress(a) ==
  CASE toLowerCase(a) = "0xaa" -> "0xAa"
    [] toLowerCase(a) = "0xbb" -> "0xBb"
    [] OTHER -> a

Multipliers == {1, 5, 10, 20}
\* the Trade logs of the chain: log 0 of a transaction is the first buy of a
\* token (supply 1) by somebody else; log 1 is a later buy by the bot's own
\* wallet in an odd transaction and a sell in an even one
tradeData(txHash, index) ==
  [trader |-> IF index = 1 /\ txHash % 2 = 1 THEN Self ELSE "other",
   subject |-> IF txHash % 2 = 1 THEN "0xAa" ELSE "0xBb",
   isBuy |-> ~(index = 1 /\ txHash % 2 = 0),
   supply |-> IF index = 1 /\ txHash % 2 = 1 THEN 2 ELSE 1,
   multiplier |-> CASE txHash % 4 = 1 -> 10
                    [] txHash % 4 = 2 -> 20
                    [] txHash % 4 = 3 -> 5
                    [] OTHER -> 1]

\* nothing registered: trade and error count the listeners on "Trade" and on
\* the provider's "error", heartbeats the running setInterval timers,
\* handle whether heartbeatInterval holds one, probes the checkConnection
\* calls awaiting getBlockNumber
NoListeners == [trade |-> 0, error |-> 0, heartbeats |-> 0, handle |-> FALSE,
                probes |-> 0]

\* ContractMonitor after its constructor and init()
MonitorIdle ==
  /\ isRunning = FALSE
  /\ isMonitoring = FALSE
  /\ processedEvents = {}
  /\ duplicates = 0
  /\ lastProcessedBlock = 0
  /\ lastBlockFile = 0
  /\ blockWrites = {}
  /\ reconnectAttempts = 0
  /\ reconnectTimers = 0
  /\ errorsSinceNetwork = 0
  /\ immediates = <<>>
  /\ newTokenCalls = [id \in EventIds |-> 0]
  /\ externalBuyCalls = [id \in EventIds |-> 0]
  /\ subs = NoListeners

\* ------------------------------------------------------ scanner passes
Passes == 1..MaxPasses
NoCandidates == [k \in {} |-> 0]
\* of a listed candidate a pass uses address, curveIndex and createdAt
NoCandidate == [address |-> "", curveIndex |-> 0, createdAt |-> 0]
ScanIdle == [pc |-> "idle", list |-> <<>>, candidate |-> NoCandidate,
             followers |-> 0, isBlue |-> FALSE]

\* an empty candidates table and no pass running, under a configuration
\* with the given verification switch
ScannerConfigured(requireBlue) ==
  /\ candidates = NoCandidates
  /\ scans = [p \in Passes |-> ScanIdle]
  /\ now = 1
  /\ buyCalls = <<>>
  /\ requireBlueVerification = requireBlue

\* the switch is on when the configuration does not set it
ScannerIdle == ScannerConfigured(TRUE)

\* Trader and Portfolio after construction, with nothing held
TraderIdle ==
  /\ isTrading = FALSE
  /\ sellQueue = <<>>
  /\ isProcessingSellQueue = FALSE
  /\ worker = WorkerOff
  /\ buy = [c \in BuyCallers |-> BuyIdle]
  /\ buyRet = NoResult
  /\ sell = [c \in SellCallers |-> SellIdle]
  /\ portfolio = EmptyLedger
  /\ deferred = {}
  /\ net = [t \in Tokens |-> 0]
  /\ sellAll = SellAllIdle
  /\ sweep = SweepIdle

Init ==
  /\ MonitorIdle
  /\ ScannerIdle
  /\ isTrading = FALSE
  /\ sellQueue = <<>>
  /\ isProcessingSellQueue = FALSE
  /\ worker = WorkerOff
  /\ buy = [c \in BuyCallers |-> BuyIdle]
  /\ buyRet = NoResult
  /\ sell = [c \in SellCallers |-> SellIdle]
  /\ portfolio \in Ledgers(MaxInitAmount)
  /\ deferred = {}
  /\ net = [t \in Tokens |-> getTokenAmount(portfolio, t)]
  /\ sellAll = SellAllIdle
  /\ sweep = SweepIdle

\* ------------------------------------------------------------- buyToken
\* catch block of buyToken: the error reason returned for a thrown error
BuyErrorMessage(err) ==
  IF err.code = "INSUFFICIENT_FUNDS" THEN ErrBuyFunds
  ELSE IF err.code = "UNPREDICTABLE_GAS_LIMIT" THEN ErrBuyGas
  ELSE err.message

\* the value buyToken returns when isTrading is already set
BuyBusyReturn == Failure(ErrBusy)

\* a buyToken that returns r and leaves isTrading as it is
BuyFinishHold(c, r) ==
  /\ buy' = [buy EXCEPT ![c] = [BuyIdle EXCEPT !.pc = "done"]]
  /\ buyRet' = r
  /\ isTrading' = isTrading

\* buyToken returns r: the finally block clears isTrading
BuyFinish(c, r) ==
  /\ buy' = [buy EXCEPT ![c] = [BuyIdle EXCEPT !.pc = "done"]]
  /\ buyRet' = r
  /\ isTrading' = FALSE

\* buyToken(t, a) up to its first await (getFeeData)
BuyToken(c, t, a) ==
  /\ buy[c].pc = "idle"
  /\ \A d \in BuyCallers : d < c => buy[d].pc # "idle"
  /\ IF isTrading
       THEN /\ buy' = [buy EXCEPT ![c] = [BuyIdle EXCEPT !.pc = "done"]]
            /\ buyRet' = BuyBusyReturn
            /\ isTrading' = isTrading
       ELSE /\ buy' = [buy EXCEPT ![c] = [BuyIdle EXCEPT !.pc = "send",
                                            !.tokenAddress = t, !.amount = a]]
            /\ buyRet' = buyRet
            /\ isTrading' = TRUE
  /\ UNCHANGED <<sellQueue, isProcessingSellQueue, worker, sell, portfolio,
                 deferred, net>>
  /\ UNCHANGED <<monitorVars, scannerVars, batchVars>>

\* getFeeData and wallet.sendTransaction: the transaction is submitted, or
\* the provider throws
BuySend(c) ==
  /\ buy[c].pc = "send"
  /\ \/ /\ buy' = [buy EXCEPT ![c].pc = "wait"]
        /\ UNCHANGED <<isTrading, buyRet>>
     \/ \E err \in BuyErrors : BuyFinish(c, Failure(BuyErrorMessage(err)))
  /\ UNCHANGED <<sellQueue, isProcessingSellQueue, worker, sell, portfolio,
                 deferred, net>>
  /\ UNCHANGED <<monitorVars, scannerVars, batchVars>>

\* tx.wait(): receipt with status 1 (then addToken loads portfolio.json),
\* receipt with another status, or a thrown error
BuyWait(c) ==
  /\ buy[c].pc = "wait"
  /\ \/ /\ buy' = [buy EXCEPT ![c].pc = "add", ![c].snap = portfolio]
        /\ net' = [net EXCEPT ![buy[c].tokenAddress] = @ + buy[c].amount]
        /\ UNCHANGED <<isTrading, buyRet>>
     \/ /\ BuyFinish(c, Failure(ErrRolledBack))
        /\ net' = net
     \/ /\ \E err \in BuyErrors : BuyFinish(c, Failure(BuyErrorMessage(err)))
        /\ net' = net
  /\ UNCHANGED <<sellQueue, isProcessingSellQueue, worker, sell, portfolio,
                 deferred>>
  /\ UNCHANGED <<monitorVars, scannerVars, batchVars>>

\* addToken saves the loaded portfolio with the amount added; buyToken
\* returns the success result
BuyAdd(c) ==
  /\ buy[c].pc = "add"
  /\ portfolio' = addToken(buy[c].snap, buy[c].tokenAddress, buy[c].amount)
  /\ BuyFinish(c, Success(BuyTxHash(c)))
  /\ UNCHANGED <<sellQueue, isProcessingSellQueue, worker, sell, deferred, net>>
  /\ UNCHANGED <<monitorVars, scannerVars, batchVars>>

\* ---------------------------------------------- sellToken and its queue
\* a back-off that forgets the job instead of pushing it back
ReEnqueueDrop(q, job) == q

\* the job pushed back when the worker finds isTrading set
ReEnqueue(q, job) == Append(q, job)

\* a shift that leaves the job in the queue
ShiftKeep(q) == q

\* what this.sellQueue.shift() leaves in the queue
Shift(q) == Tail(q)

\* head of the while loop of _processSellQueue, run on queue q with the
\* flag value f, up to the next await
LoopHead(q, f) ==
  IF q = <<>>
    THEN /\ worker' = WorkerOff
         /\ isProcessingSellQueue' = FALSE
         /\ sellQueue' = q
         /\ isTrading' = f
    ELSE /\ isProcessingSellQueue' = TRUE
         /\ IF Head(q).amount = NullAmount
              THEN /\ worker' = [WorkerOff EXCEPT !.pc = "resolveAmount", !.job = Head(q)]
                   /\ sellQueue' = Shift(q)
                   /\ isTrading' = f
              ELSE IF f
                THEN /\ worker' = [WorkerOff EXCEPT !.pc = "busyWait"]
                     /\ sellQueue' = ReEnqueue(Shift(q), Head(q))
                     /\ isTrading' = f
                ELSE /\ worker' = [WorkerOff EXCEPT !.pc = "perform", !.job = Head(q)]
                     /\ sellQueue' = Shift(q)
                     /\ isTrading' = TRUE

\* a push that puts the job in front of the waiting ones
PushFront(q, job) == <<job>> \o q

\* this.sellQueue.push(job) of sellToken
Push(q, job) == Append(q, job)

\* sellToken(t, a): push the job and call _processSellQueue, which returns
\* at once when a worker is running and otherwise runs to its first await
EnqueueJob(c, t, a) ==
  /\ sell[c].pc = "idle"
  /\ \A d \in SellCallers : d < c => sell[d].pc # "idle"
  /\ sell' = [sell EXCEPT ![c] =
        [SellIdle EXCEPT !.pc = "waiting",
           !.concurrent = \E d \in SellCallers : sell[d].pc = "waiting"]]
  /\ LET q == Push(sellQueue, [id |-> c, tokenAddress |-> t, amount |-> a])
     IN  IF isProcessingSellQueue
           THEN /\ sellQueue' = q
                /\ UNCHANGED <<worker, isProcessingSellQueue, isTrading>>
           ELSE LoopHead(q, isTrading)
  /\ UNCHANGED <<buy, buyRet, portfolio, deferred, net>>

\* a sellToken call made while the monitor and the scanner do nothing
Enqueue(c, t, a) ==
  /\ EnqueueJob(c, t, a)
  /\ UNCHANGED <<monitorVars, scannerVars>>

SellToken(c, t, a) ==
  /\ Enqueue(c, t, a)
  /\ UNCHANGED batchVars

\* one loop iteration ends: job.resolve(r) if the job got a result, then the
\* finally block clears isTrading and sleeps 300 ms
IterationEnd(id, r) ==
  /\ sell' = IF id = 0 THEN sell
             ELSE [sell EXCEPT ![id].pc = "done", ![id].ret = r]
  /\ isTrading' = FALSE
  /\ worker' = [WorkerOff EXCEPT !.pc = "gapWait"]

\* amount === null: the amount held now; no holding resolves the job
WorkerResolveAmount ==
  /\ worker.pc = "resolveAmount"
  /\ LET job == worker.job
         amount == getTokenAmount(portfolio, job.tokenAddress)
     IN  IF amount <= 0
           THEN /\ IterationEnd(job.id, Failure(ErrNoHolding))
                /\ sellQueue' = sellQueue
           ELSE IF isTrading
             THEN /\ sellQueue' = ReEnqueue(sellQueue, [job EXCEPT !.amount = amount])
                  /\ worker' = [WorkerOff EXCEPT !.pc = "busyWait"]
                  /\ UNCHANGED <<sell, isTrading>>
             ELSE /\ isTrading' = TRUE
                  /\ worker' = [WorkerOff EXCEPT !.pc = "perform",
                                                 !.job = [job EXCEPT !.amount = amount]]
                  /\ UNCHANGED <<sell, sellQueue>>
  /\ UNCHANGED <<isProcessingSellQueue, buy, buyRet, portfolio, deferred, net>>
  /\ UNCHANGED <<monitorVars, scannerVars, batchVars>>

\* the 500 ms back-off is over: continue, through the finally block
WorkerBusyWake ==
  /\ worker.pc = "busyWait"
  /\ IterationEnd(0, NoResult)
  /\ UNCHANGED <<sellQueue, isProcessingSellQueue, buy, buyRet, portfolio,
                 deferred, net>>
  /\ UNCHANGED <<monitorVars, scannerVars, batchVars>>

\* the 300 ms gap is over: next iteration, or the loop ends
WorkerGapWake ==
  /\ worker.pc = "gapWait"
  /\ LoopHead(sellQueue, isTrading)
  /\ UNCHANGED <<buy, buyRet, sell, portfolio, deferred, net>>
  /\ UNCHANGED <<monitorVars, scannerVars, batchVars>>

\* ---------------------------------------------------------- _performSell
\* the holding check with its operands exchanged
HoldingShortSwapped(holding, amount) == amount < holding

\* the holding check at the head of _performSell
HoldingShort(holding, amount) == holding < amount

\* how the two catch blocks of _performSell read a thrown error
IsLastShare(err) == Includes(err.message, PhraseLastShare)

\* a match on the exact phrase, without toLowerCase and includes
IsInsufficientSharesExact(err) == err.message = PhraseInsufficientShares

IsInsufficientShares(err) ==
  ~Includes(err.message, PhraseLastShare) /\ Includes(err.message, PhraseInsufficientShares)

\* outer catch block of _performSell
SellErrorMessage(err) ==
  IF err.code = "INSUFFICIENT_FUNDS" THEN ErrSellFunds ELSE err.message

\* the result for 'cannot sell the last share': success without transaction
LastShareReturn == Success(NullTx)

\* the result for 'insufficient shares'
InsufficientSharesReturn == Failure(ErrInsufficient)

\* a markDeferredSell that writes nothing
markDeferredSellNoop(d, t) == d

\* markDeferredSell: the token becomes a key of deferredSell.json
markDeferredSell(d, t) == d \cup {t}

\* a throw of estimateGas, sellShares or tx.wait that carries one of the two
\* known revert reasons
KnownRevert(job, err) ==
  IF IsLastShare(err)
    THEN /\ deferred' = markDeferredSell(deferred, job.tokenAddress)
         /\ IterationEnd(job.id, LastShareReturn)
    ELSE /\ deferred' = deferred
         /\ IterationEnd(job.id, InsufficientSharesReturn)

\* getTokenAmount, the holding check and estimateGas, which returns an
\* estimate or throws
PerformSellEstimate ==
  /\ worker.pc = "perform"
  /\ LET job == worker.job
         holding == getTokenAmount(portfolio, job.tokenAddress)
     IN  IF HoldingShort(holding, job.amount)
           THEN IterationEnd(job.id, Failure(ErrHoldingShort))
           ELSE /\ \/ worker' = [worker EXCEPT !.pc = "send"]
                   \/ \E err \in SellErrors :
                        worker' = [worker EXCEPT !.pc = "estimateCatch", !.err = err]
                /\ UNCHANGED <<sell, isTrading>>
  /\ UNCHANGED <<sellQueue, isProcessingSellQueue, buy, buyRet, portfolio,
                 deferred, net>>
  /\ UNCHANGED <<monitorVars, scannerVars, batchVars>>

\* catch block of estimateGas: the two known revert reasons end the sell,
\* any other error falls back to the default gas limit
PerformSellEstimateCatch ==
  /\ worker.pc = "estimateCatch"
  /\ IF IsLastShare(worker.err) \/ IsInsufficientShares(worker.err)
       THEN KnownRevert(worker.job, worker.err)
       ELSE /\ worker' = [worker EXCEPT !.pc = "send", !.err = NoErr]
            /\ UNCHANGED <<sell, isTrading, deferred>>
  /\ UNCHANGED <<sellQueue, isProcessingSellQueue, buy, buyRet, portfolio, net>>
  /\ UNCHANGED <<monitorVars, scannerVars, batchVars>>

\* a throw of sellShares or tx.wait, through the inner catch block and, when
\* rethrown, the outer one
SendError(job, err) ==
  IF IsLastShare(err) \/ IsInsufficientShares(err)
    THEN KnownRevert(job, err)
    ELSE /\ deferred' = deferred
         /\ IterationEnd(job.id, Failure(SellErrorMessage(err)))

\* getFeeData and contract.sellShares: the transaction is submitted, or the
\* provider throws
PerformSellSend ==
  /\ worker.pc = "send"
  /\ \/ /\ worker' = [worker EXCEPT !.pc = "wait"]
        /\ UNCHANGED <<sell, isTrading, deferred>>
     \/ \E err \in SellErrors : SendError(worker.job, err)
  /\ UNCHANGED <<sellQueue, isProcessingSellQueue, buy, buyRet, portfolio, net>>
  /\ UNCHANGED <<monitorVars, scannerVars, batchVars>>

\* tx.wait(): receipt with status 1 (then removeToken loads portfolio.json),
\* receipt with another status, or a thrown error
PerformSellWait ==
  /\ worker.pc = "wait"
  /\ \/ /\ worker' = [worker EXCEPT !.pc = "remove", !.snap = portfolio]
        /\ net' = [net EXCEPT ![worker.job.tokenAddress] = @ - worker.job.amount]
        /\ UNCHANGED <<sell, isTrading, deferred>>
     \/ /\ IterationEnd(worker.job.id, Failure(ErrRolledBack))
        /\ UNCHANGED <<net, deferred>>
     \/ /\ \E err \in SellErrors : SendError(worker.job, err)
        /\ net' = net
  /\ UNCHANGED <<sellQueue, isProcessingSellQueue, buy, buyRet, portfolio>>
  /\ UNCHANGED <<monitorVars, scannerVars, batchVars>>

\* removeToken saves the loaded portfolio with the amount removed (or returns
\* false without saving); _performSell returns the success result
PerformSellRemove ==
  /\ worker.pc = "remove"
  /\ LET job == worker.job
     IN  /\ portfolio' = IF removeTokenOk(worker.snap, job.tokenAddress, job.amount)
                           THEN removeToken(worker.snap, job.tokenAddress, job.amount)
                           ELSE portfolio
         /\ IterationEnd(job.id, Success(SellTxHash(job.id)))
  /\ UNCHANGED <<sellQueue, isProcessingSellQueue, buy, buyRet, deferred, net>>
  /\ UNCHANGED <<monitorVars, scannerVars, batchVars>>

\* ------------------------------------------------ TokenBot event handler
\* onExternalBuyDetected({subject, trader, isBuy}) for a buy event: sell the
\* whole holding of subject when somebody else bought it
OnExternalBuyDetected(c, subject, trader) ==
  /\ autoSellOnOthersBuy
  /\ trader # Self
  /\ getTokenAmount(portfolio, subject) > 0
  /\ Enqueue(c, subject, getTokenAmount(portfolio, subject))
  /\ UNCHANGED batchVars

\* ------------------------------------------------------- specification
Next ==
  \/ \E c \in BuyCallers, t \in Tokens : BuyToken(c, t, BuyAmount)
  \/ \E c \in BuyCallers : BuySend(c)
  \/ \E c \in BuyCallers : BuyWait(c)
  \/ \E c \in BuyCallers : BuyAdd(c)
  \/ \E c \in SellCallers, t \in Tokens, a \in (1..MaxAmount) \cup {NullAmount} :
       SellToken(c, t, a)
  \/ \E c \in SellCallers, t \in Tokens, w \in Traders : OnExternalBuyDetected(c, t, w)
  \/ WorkerResolveAmount
  \/ WorkerBusyWake
  \/ WorkerGapWake
  \/ PerformSellEstimate
  \/ PerformSellEstimateCatch
  \/ PerformSellSend
  \/ PerformSellWait
  \/ PerformSellRemove

Spec == Init /\ [][Next]_vars

\* --------------------------------------- Trader without the sell queue
\* src/src/trader.js holds a Trader whose sellToken runs the sell itself,
\* under the same isTrading flag as buyToken.  Its buyToken differs from
\* the one above in the value returned when the flag is set; the steps
\* after the flag is taken are BuySend, BuyWait and BuyAdd.
LegacyBusyReturn == BareFalse

LegacyBuyToken(c, t, a) ==
  /\ buy[c].pc = "idle"
  /\ \A d \in BuyCallers : d < c => buy[d].pc # "idle"
  /\ IF isTrading
       THEN /\ buy' = [buy EXCEPT ![c] = [BuyIdle EXCEPT !.pc = "done"]]
            /\ buyRet' = LegacyBusyReturn
            /\ isTrading' = isTrading
       ELSE /\ buy' = [buy EXCEPT ![c] = [BuyIdle EXCEPT !.pc = "send",
                                            !.tokenAddress = t, !.amount = a]]
            /\ buyRet' = buyRet
            /\ isTrading' = TRUE
  /\ UNCHANGED <<sellQueue, isProcessingSellQueue, worker, sell, portfolio,
                 deferred, net>>
  /\ UNCHANGED <<monitorVars, scannerVars, batchVars>>

\* sellToken returns r: the finally block clears isTrading
LegacySellFinish(c, r) ==
  /\ sell' = [sell EXCEPT ![c] = [SellIdle EXCEPT !.pc = "done", !.ret = r]]
  /\ isTrading' = FALSE

\* sellToken(t, a) up to its first await (getTokenAmount)
LegacySellToken(c, t, a) ==
  /\ sell[c].pc = "idle"
  /\ \A d \in SellCallers : d < c => sell[d].pc # "idle"
  /\ IF isTrading
       THEN /\ sell' = [sell EXCEPT ![c] = [SellIdle EXCEPT !.pc = "done",
                                              !.ret = LegacyBusyReturn]]
            /\ isTrading' = isTrading
       ELSE /\ sell' = [sell EXCEPT ![c] = [SellIdle EXCEPT !.pc = "perform",
                                              !.tokenAddress = t, !.amount = a]]
            /\ isTrading' = TRUE
  /\ UNCHANGED <<sellQueue, isProcessingSellQueue, worker, buy, buyRet,
                 portfolio, deferred, net>>
  /\ UNCHANGED <<monitorVars, scannerVars, batchVars>>

\* amount null resolves to the holding; the holding check; estimateGas,
\* whose errors all fall back to the default gas limit
LegacySellEstimate(c) ==
  /\ sell[c].pc = "perform"
  /\ LET holding == getTokenAmount(portfolio, sell[c].tokenAddress)
         amount == IF sell[c].amount = NullAmount THEN holding ELSE sell[c].amount
     IN  IF sell[c].amount = NullAmount /\ amount = 0
           THEN LegacySellFinish(c, Failure(ErrNoHolding))
           ELSE IF HoldingShort(holding, amount)
             THEN LegacySellFinish(c, Failure(ErrHoldingShort))
             ELSE /\ sell' = [sell EXCEPT ![c].pc = "send", ![c].amount = amount]
                  /\ isTrading' = isTrading
  /\ UNCHANGED <<sellQueue, isProcessingSellQueue, worker, buy, buyRet,
                 portfolio, deferred, net>>
  /\ UNCHANGED <<monitorVars, scannerVars, batchVars>>

\* getFeeData and contract.sellShares
LegacySellSend(c) ==
  /\ sell[c].pc = "send"
  /\ \/ /\ sell' = [sell EXCEPT ![c].pc = "wait"]
        /\ isTrading' = isTrading
     \/ \E err \in SellErrors : LegacySellFinish(c, Failure(SellErrorMessage(err)))
  /\ UNCHANGED <<sellQueue, isProcessingSellQueue, worker, buy, buyRet,
                 portfolio, deferred, net>>
  /\ UNCHANGED <<monitorVars, scannerVars, batchVars>>

\* tx.wait()
LegacySellWait(c) ==
  /\ sell[c].pc = "wait"
  /\ \/ /\ sell' = [sell EXCEPT ![c].pc = "remove", ![c].snap = portfolio]
        /\ net' = [net EXCEPT ![sell[c].tokenAddress] = @ - sell[c].amount]
        /\ isTrading' = isTrading
     \/ /\ LegacySellFinish(c, Failure(ErrRolledBack))
        /\ net' = net
     \/ /\ \E err \in SellErrors : LegacySellFinish(c, Failure(SellErrorMessage(err)))
        /\ net' = net
  /\ UNCHANGED <<sellQueue, isProcessingSellQueue, worker, buy, buyRet,
                 portfolio, deferred>>
  /\ UNCHANGED <<monitorVars, scannerVars, batchVars>>

\* removeToken saves; sellToken returns the success result
LegacySellRemove(c) ==
  /\ sell[c].pc = "remove"
  /\ portfolio' = IF removeTokenOk(sell[c].snap, sell[c].tokenAddress, sell[c].amount)
                    THEN removeToken(sell[c].snap, sell[c].tokenAddress, sell[c].amount)
                    ELSE portfolio
  /\ LegacySellFinish(c, Success(SellTxHash(c)))
  /\ UNCHANGED <<sellQueue, isProcessingSellQueue, worker, buy, buyRet,
                 deferred, net>>
  /\ UNCHANGED <<monitorVars, scannerVars, batchVars>>

NextLegacy ==
  \/ \E c \in BuyCallers, t \in Tokens : LegacyBuyToken(c, t, BuyAmount)
  \/ \E c \in BuyCallers : BuySend(c)
  \/ \E c \in BuyCallers : BuyWait(c)
  \/ \E c \in BuyCallers : BuyAdd(c)
  \/ \E c \in SellCallers, t \in Tokens, a \in (1..MaxAmount) \cup {NullAmount} :
       LegacySellToken(c, t, a)
  \/ \E c \in SellCallers : LegacySellEstimate(c)
  \/ \E c \in SellCallers : LegacySellSend(c)
  \/ \E c \in SellCallers : LegacySellWait(c)
  \/ \E c \in SellCallers : LegacySellRemove(c)

SpecLegacy == Init /\ [][NextLegacy]_vars

\* the fairness the event loop and the chain give: a timer that is due
\* fires, a pending promise settles, a submitted transaction gets a receipt
FairSpec ==
  /\ Spec
  /\ WF_vars(WorkerResolveAmount)
  /\ WF_vars(WorkerBusyWake)
  /\ WF_vars(WorkerGapWake)
  /\ WF_vars(PerformSellEstimate)
  /\ WF_vars(PerformSellEstimateCatch)
  /\ WF_vars(PerformSellSend)
  /\ WF_vars(PerformSellWait)
  /\ WF_vars(PerformSellRemove)
  /\ \A c \in BuyCallers :
       WF_vars(BuySend(c)) /\ WF_vars(BuyWait(c)) /\ WF_vars(BuyAdd(c))

\* ------------------------------------------------------- sellAllTokens
\* an enumeration that may name a token twice
getAllTokensRepeating(p) == [1..Cardinality(DOMAIN p) -> DOMAIN p]

\* Object.keys of portfolio.json: the tokens held, in the order of the file
getAllTokens(p) ==
  {seq \in [1..Cardinality(DOMAIN p) -> DOMAIN p] :
     \A i, j \in DOMAIN seq : seq[i] = seq[j] => i = j}

\* the sellToken call the next one is numbered after
FreeCaller == CHOOSE c \in SellCallers :
                sell[c].pc = "idle" /\ \A d \in SellCallers : d < c => sell[d].pc # "idle"

\* the body of the for loop up to its await: sellToken(tokenAddress) for the
\* first token without result, or the return of results when none is left
SellAllLoop(results) ==
  IF Len(results) = Len(sellAll.tokens)
    THEN /\ sellAll' = [sellAll EXCEPT !.pc = "done", !.results = results]
         /\ UNCHANGED <<isTrading, sellQueue, isProcessingSellQueue, worker, buy,
                        buyRet, sell, portfolio, deferred, net>>
         /\ UNCHANGED <<monitorVars, scannerVars, sweep>>
    ELSE /\ \E c \in SellCallers : sell[c].pc = "idle"
         /\ UNCHANGED sweep
         /\ sellAll' = [sellAll EXCEPT !.pc = "awaiting", !.results = results,
                                       !.callers = Append(@, FreeCaller)]
         /\ Enqueue(FreeCaller, sellAll.tokens[Len(results) + 1], NullAmount)

\* sellAllTokens() up to the await of getAllTokens
SellAllTokens ==
  /\ sellAll.pc = "idle"
  /\ \E tokens \in getAllTokens(portfolio) :
       sellAll' = [sellAll EXCEPT !.pc = "loop", !.tokens = tokens]
  /\ UNCHANGED <<traderVars, monitorVars, scannerVars, sweep>>

\* getAllTokens has returned: the loop starts
SellAllStart ==
  /\ sellAll.pc = "loop"
  /\ SellAllLoop(<<>>)

\* the awaited sellToken has returned result: it is pushed with its token;
\* a success is followed by the 3 s pause, a failure by the next token
SellAllResult ==
  /\ sellAll.pc = "awaiting"
  /\ LET c == sellAll.callers[Len(sellAll.callers)]
         results == Append(sellAll.results,
                      [tokenAddress |-> sellAll.tokens[Len(sellAll.callers)],
                       result |-> sell[c].ret])
     IN  /\ sell[c].pc = "done"
         /\ IF sell[c].ret.success
              THEN /\ sellAll' = [sellAll EXCEPT !.pc = "pause", !.results = results]
                   /\ UNCHANGED <<traderVars, monitorVars, scannerVars, sweep>>
              ELSE SellAllLoop(results)

\* the 3 s pause is over
SellAllPause ==
  /\ sellAll.pc = "pause"
  /\ SellAllLoop(sellAll.results)

\* sellAllTokens while buyToken calls are made; its sellToken calls are the
\* only ones
NextSellAll ==
  \/ \E c \in BuyCallers, t \in Tokens : BuyToken(c, t, BuyAmount)
  \/ \E c \in BuyCallers : BuySend(c)
  \/ \E c \in BuyCallers : BuyWait(c)
  \/ \E c \in BuyCallers : BuyAdd(c)
  \/ WorkerResolveAmount
  \/ WorkerBusyWake
  \/ WorkerGapWake
  \/ PerformSellEstimate
  \/ PerformSellEstimateCatch
  \/ PerformSellSend
  \/ PerformSellWait
  \/ PerformSellRemove
  \/ SellAllTokens
  \/ SellAllStart
  \/ SellAllResult
  \/ SellAllPause

SpecSellAll == Init /\ [][NextSellAll]_vars

\* ------------------------------------------------ SqliteCandidateStore
\* SQL NULL in a text column and in an integer column
NullText == ""
NullNumber == -1

\* BigInt.prototype.toString and Number.prototype.toString, as the sequence
\* of the decimal digits
DigitChars == <<"0", "1", "2", "3", "4", "5", "6", "7", "8", "9">>
RECURSIVE toString(_)
toString(n) ==
  IF n < 10 THEN <<DigitChars[n + 1]>>
  ELSE Append(toString(n \div 10), DigitChars[(n % 10) + 1])

\* the row INSERT writes: lastChecked 0, status pending, the other columns
\* NULL (ignoredAt, a time stamp no code reads, is left out of the rows)
NewRow(checksum, curveIndex, multiplier, txHash, createdAt) ==
  [addressChecksum |-> checksum, curveIndex |-> curveIndex,
   multiplier |-> multiplier, txHash |-> txHash, createdAt |-> createdAt,
   lastChecked |-> 0, status |-> "pending", creatorTwitter |-> NullText,
   followers |-> NullNumber, isBlue |-> NullNumber, boughtTxHash |-> NullTx,
   boughtAt |-> NullNumber, lastError |-> NullText]

\* an INSERT OR REPLACE under the lower-case primary key
addCandidateReplace(db, address, curveIndex, multiplier, txHash, createdAt) ==
  LET key == toLowerCase(address)
  IN  [k \in DOMAIN db \cup {key} |->
         IF k = key
           THEN NewRow(getAddress(address), curveIndex, multiplier, txHash, createdAt)
           ELSE db[k]]

\* INSERT OR IGNORE under the lower-case primary key
addCandidate(db, address, curveIndex, multiplier, txHash, createdAt) ==
  LET key == toLowerCase(address)
  IN  IF key \in DOMAIN db THEN db
      ELSE [k \in DOMAIN db \cup {key} |->
              IF k = key
                THEN NewRow(getAddress(address), curveIndex, multiplier, txHash, createdAt)
                ELSE db[k]]

\* the columns updateCandidate accepts from a patch
AllowedColumns ==
  {"curveIndex", "multiplier", "txHash", "createdAt", "lastChecked", "status",
   "creatorTwitter", "followers", "isBlue", "boughtTxHash", "boughtAt",
   "ignoredAt", "lastError", "addressChecksum"}

\* a boolean is bound as 0 or 1; isBlue is the one column the callers give
\* a boolean for
Bind(k, v) == IF k = "isBlue" THEN (IF v THEN 1 ELSE 0) ELSE v

\* UPDATE candidates SET <the allowed keys of patch> WHERE address = lower(address)
updateCandidate(db, address, patch) ==
  LET key == toLowerCase(address)
      fields == DOMAIN patch \cap AllowedColumns
  IN  IF fields = {} \/ key \notin DOMAIN db THEN db
      ELSE [db EXCEPT ![key] =
              [f \in DOMAIN db[key] |->
                 IF f \in fields THEN Bind(f, patch[f]) ELSE db[key][f]]]

\* markBought: status, boughtTxHash and boughtAt = Date.now()
markBought(db, address, boughtTxHash) ==
  LET key == toLowerCase(address)
  IN  IF key \notin DOMAIN db THEN db
      ELSE [db EXCEPT ![key].status = "bought", ![key].boughtTxHash = boughtTxHash,
                      ![key].boughtAt = now]

markIgnored(db, address, reason) ==
  LET key == toLowerCase(address)
  IN  IF key \notin DOMAIN db THEN db
      ELSE [db EXCEPT ![key].status = "ignored", ![key].lastError = reason]

\* _convert: the object get and listCandidates return for a row
Convert(key, row) ==
  [address |-> key,
   addressChecksum |-> IF row.addressChecksum # NullText
                         THEN row.addressChecksum ELSE getAddress(key),
   curveIndex |-> row.curveIndex, multiplier |-> row.multiplier,
   txHash |-> row.txHash, createdAt |-> row.createdAt,
   lastChecked |-> row.lastChecked, status |-> row.status,
   creatorTwitter |-> row.creatorTwitter, followers |-> row.followers,
   isBlue |-> (row.isBlue = 1), boughtTxHash |-> row.boughtTxHash,
   boughtAt |-> row.boughtAt, lastError |-> row.lastError]

\* get(address): the object of the row under the lower-case key
get(db, address) == Convert(toLowerCase(address), db[toLowerCase(address)])

\* ------------------------------------------------- onNewTokenDetected
\* a mapping that gives every multiplier curve 0
multiplierToCurveIndexFlat(multiplier) == 0

multiplierToCurveIndex(multiplier) ==
  LET multiplierValue == toString(multiplier)
  IN  CASE multiplierValue = <<"2", "0">> -> 3
        [] multiplierValue = <<"1", "0">> -> 2
        [] multiplierValue = <<"5">> -> 1
        [] OTHER -> 0

\* onNewTokenDetected(tokenAddress, txHash, blockNumber, multiplier): the
\* table after the handler
OnNewTokenDetected(tokenAddress, txHash, multiplier) ==
  addCandidate(candidates, tokenAddress, multiplierToCurveIndex(multiplier),
               multiplier, txHash, now)

\* ------------------------------------------------------ ContractMonitor
maxReconnectAttempts == 5

\* processedEvents.add(eventId)
MarkProcessedNever(seen, id) == seen

MarkProcessed(seen, id) == seen \cup {id}

\* a monitor that reports every buy as a new token
NewTokenCallbackAnyBuy(id, data) ==
  IF data.isBuy
    THEN <<[kind |-> "newToken", id |-> id, subject |-> data.subject,
            txHash |-> id[1], blockNumber |-> BlockNumber(id[1]),
            multiplier |-> data.multiplier]>>
    ELSE <<>>

\* the callbacks processTradeEvent schedules with setImmediate
NewTokenCallback(id, data) ==
  IF data.isBuy /\ toString(data.supply) = <<"1">>
    THEN <<[kind |-> "newToken", id |-> id, subject |-> data.subject,
            txHash |-> id[1], blockNumber |-> BlockNumber(id[1]),
            multiplier |-> data.multiplier]>>
    ELSE <<>>

ExternalBuyCallback(id, data) ==
  IF data.isBuy
    THEN <<[kind |-> "externalBuy", id |-> id, subject |-> data.subject,
            multiplier |-> 0]>>
    ELSE <<>>

\* setupEventListener(): contract.on("Trade"), startHeartbeat(), and
\* provider.on("error")
setupEventListener(s) ==
  [s EXCEPT !.trade = @ + 1, !.heartbeats = @ + 1, !.handle = TRUE,
            !.error = @ + 1]

\* clearInterval(this.heartbeatInterval) when it is set, and the two
\* removeAllListeners calls
removeListeners(s) ==
  [s EXCEPT !.heartbeats = IF s.handle THEN @ - 1 ELSE @,
            !.trade = 0, !.error = 0]

\* a reconnect that registers again and removes nothing
reconnectKeep(s) == setupEventListener(s)

\* reconnect(): the old timer and listeners go, new ones are registered;
\* heartbeatInterval keeps a handle throughout
reconnect(s) == setupEventListener(removeListeners(s))

\* start(): startMonitoring registers the listeners
StartMonitoring ==
  /\ ~isRunning
  /\ isRunning' = TRUE
  /\ isMonitoring' = TRUE
  /\ subs' = setupEventListener(subs)
  /\ UNCHANGED <<processedEvents, duplicates, lastProcessedBlock, lastBlockFile, blockWrites,
                 reconnectAttempts, reconnectTimers, errorsSinceNetwork,
                 immediates, newTokenCalls, externalBuyCalls>>
  /\ UNCHANGED <<traderVars, scannerVars, batchVars>>

\* the Trade listener and processTradeEvent, up to the await of saveLastBlock
ProcessTradeEvent(txHash, index) ==
  /\ subs.trade > 0
  /\ isMonitoring
  /\ Len(immediates) + 2 <= MaxImmediates
  /\ LET id == eventId(txHash, index)
         data == tradeData(txHash, index)
         blockNumber == BlockNumber(txHash)
     IN  IF id \in processedEvents
           THEN /\ duplicates' = IF duplicates < MaxDuplicates
                                    THEN duplicates + 1 ELSE duplicates
                /\ UNCHANGED <<processedEvents, immediates, lastProcessedBlock,
                               blockWrites>>
           ELSE /\ processedEvents' = MarkProcessed(processedEvents, id)
                /\ UNCHANGED duplicates
                /\ immediates' = immediates \o NewTokenCallback(id, data)
                                            \o ExternalBuyCallback(id, data)
                /\ IF blockNumber > lastProcessedBlock
                     THEN /\ lastProcessedBlock' = blockNumber
                          /\ blockWrites' = blockWrites \cup {blockNumber}
                     ELSE UNCHANGED <<lastProcessedBlock, blockWrites>>
  /\ UNCHANGED <<isRunning, isMonitoring, lastBlockFile, reconnectAttempts,
                 reconnectTimers, errorsSinceNetwork, newTokenCalls, externalBuyCalls>>
  /\ UNCHANGED subs
  /\ UNCHANGED <<traderVars, scannerVars, batchVars>>

\* a writeJson of saveLastBlock finishes; writes that overlap are not
\* ordered, the file holds what the write that finishes last wrote
SaveLastBlockDone(blockNumber) ==
  /\ blockNumber \in blockWrites
  /\ lastBlockFile' = blockNumber
  /\ blockWrites' = blockWrites \ {blockNumber}
  /\ UNCHANGED <<isRunning, isMonitoring, processedEvents, duplicates, lastProcessedBlock,
                 reconnectAttempts, reconnectTimers, errorsSinceNetwork,
                 immediates, newTokenCalls, externalBuyCalls>>
  /\ UNCHANGED subs
  /\ UNCHANGED <<traderVars, scannerVars, batchVars>>

\* the next setImmediate callback runs: onNewToken adds the candidate (the
\* monitor-only bot of src/monitor.js, whose onExternalBuy only logs)
RunImmediate ==
  /\ immediates # <<>>
  /\ LET cb == Head(immediates)
     IN  IF cb.kind = "newToken"
           THEN /\ newTokenCalls' = [newTokenCalls EXCEPT ![cb.id] = @ + 1]
                /\ candidates' = OnNewTokenDetected(cb.subject, cb.txHash, cb.multiplier)
                /\ UNCHANGED externalBuyCalls
           ELSE /\ externalBuyCalls' = [externalBuyCalls EXCEPT ![cb.id] = @ + 1]
                /\ UNCHANGED <<newTokenCalls, candidates>>
  /\ immediates' = Tail(immediates)
  /\ UNCHANGED <<isRunning, isMonitoring, processedEvents, duplicates, lastProcessedBlock,
                 lastBlockFile, blockWrites, reconnectAttempts, reconnectTimers,
                 errorsSinceNetwork>>
  /\ UNCHANGED subs
  /\ UNCHANGED <<traderVars, scans, now, buyCalls, requireBlueVerification, batchVars>>

\* the bot of src/monitor.js: ContractMonitor feeding the candidates table
InitMonitor ==
  /\ TraderIdle
  /\ MonitorIdle
  /\ ScannerIdle

NextMonitor ==
  \/ StartMonitoring
  \/ \E txHash \in TxHashes, index \in LogIndexes : ProcessTradeEvent(txHash, index)
  \/ \E blockNumber \in 1..MaxBlock : SaveLastBlockDone(blockNumber)
  \/ RunImmediate

SpecMonitor == InitMonitor /\ [][NextMonitor]_vars

\* --------------------------------------- provider errors and reconnect
\* reconnect(): listeners are registered again, the counter is reset
Reconnect == 0

\* stopMonitoring() after its isMonitoring test
stopMonitoring(s) == [removeListeners(s) EXCEPT !.handle = FALSE]

\* provider.on("error"): the handler runs when it is registered
ProviderError ==
  /\ subs.error > 0
  /\ isMonitoring
  /\ errorsSinceNetwork < MaxErrors
  /\ errorsSinceNetwork' = errorsSinceNetwork + 1
  /\ IF reconnectAttempts < maxReconnectAttempts
       THEN /\ reconnectTimers < MaxTimers
            /\ reconnectAttempts' = reconnectAttempts + 1
            /\ reconnectTimers' = reconnectTimers + 1
            /\ UNCHANGED <<isMonitoring, subs>>
       ELSE /\ isMonitoring' = FALSE
            /\ subs' = stopMonitoring(subs)
            /\ UNCHANGED <<reconnectAttempts, reconnectTimers>>
  /\ UNCHANGED <<isRunning, processedEvents, duplicates, lastProcessedBlock, lastBlockFile,
                 blockWrites, immediates, newTokenCalls, externalBuyCalls>>
  /\ UNCHANGED <<traderVars, scannerVars, batchVars>>

\* the 5 s timer of the error handler fires
ReconnectTimer ==
  /\ reconnectTimers > 0
  /\ reconnectTimers' = reconnectTimers - 1
  /\ reconnectAttempts' = IF isMonitoring THEN Reconnect ELSE reconnectAttempts
  /\ subs' = IF isMonitoring THEN reconnect(subs) ELSE subs
  /\ UNCHANGED <<isRunning, isMonitoring, processedEvents, duplicates, lastProcessedBlock,
                 lastBlockFile, blockWrites, errorsSinceNetwork, immediates,
                 newTokenCalls, externalBuyCalls>>
  /\ UNCHANGED <<traderVars, scannerVars, batchVars>>

\* the heartbeat timer fires with no event for two minutes: checkConnection
\* is called and awaits getBlockNumber
HeartbeatProbe ==
  /\ subs.heartbeats > 0
  /\ isMonitoring
  /\ subs.probes < MaxProbes
  /\ subs' = [subs EXCEPT !.probes = @ + 1]
  /\ UNCHANGED <<isRunning, isMonitoring, processedEvents, duplicates, lastProcessedBlock,
                 lastBlockFile, blockWrites, reconnectAttempts, reconnectTimers,
                 errorsSinceNetwork, immediates, newTokenCalls, externalBuyCalls>>
  /\ UNCHANGED <<traderVars, scannerVars, batchVars>>

\* getBlockNumber of checkConnection returns, or it fails: then reconnect is
\* called when the monitor is still monitoring
CheckConnectionDone ==
  /\ subs.probes > 0
  /\ \E ok \in BOOLEAN :
       IF ok \/ ~isMonitoring
         THEN /\ subs' = [subs EXCEPT !.probes = @ - 1]
              /\ UNCHANGED reconnectAttempts
         ELSE /\ subs' = [reconnect(subs) EXCEPT !.probes = @ - 1]
              /\ reconnectAttempts' = Reconnect
  /\ UNCHANGED <<isRunning, isMonitoring, processedEvents, duplicates, lastProcessedBlock,
                 lastBlockFile, blockWrites, reconnectTimers, errorsSinceNetwork,
                 immediates, newTokenCalls, externalBuyCalls>>
  /\ UNCHANGED <<traderVars, scannerVars, batchVars>>

\* provider.on("network")
NetworkEvent ==
  /\ isMonitoring
  /\ reconnectAttempts' = 0
  /\ errorsSinceNetwork' = 0
  /\ UNCHANGED <<isRunning, isMonitoring, processedEvents, duplicates, lastProcessedBlock,
                 lastBlockFile, blockWrites, reconnectTimers, immediates,
                 newTokenCalls, externalBuyCalls, subs>>
  /\ UNCHANGED <<traderVars, scannerVars, batchVars>>

NextReconnect ==
  \/ StartMonitoring
  \/ ProviderError
  \/ ReconnectTimer
  \/ HeartbeatProbe
  \/ CheckConnectionDone
  \/ NetworkEvent

SpecReconnect == InitMonitor /\ [][NextReconnect]_vars

\* ------------------------------------- TokenBot fed by ContractMonitor
\* the bot of src/unnamed/part_000: portfolio.json holds nothing or one
\* position, under the key the buy that made it was called with (the
\* lower-case address of the candidates table, or the address of an event)
BotLedgers ==
  {EmptyLedger} \cup
  {[k \in {a} |-> n] : a \in Tokens \cup Addresses, n \in 1..MaxInitAmount}

InitBot ==
  /\ MonitorIdle
  /\ ScannerIdle
  /\ isTrading = FALSE
  /\ sellQueue = <<>>
  /\ isProcessingSellQueue = FALSE
  /\ worker = WorkerOff
  /\ buy = [c \in BuyCallers |-> BuyIdle]
  /\ buyRet = NoResult
  /\ sell = [c \in SellCallers |-> SellIdle]
  /\ portfolio \in BotLedgers
  /\ deferred = {}
  /\ net = [t \in Tokens \cup Addresses |-> getTokenAmount(portfolio, t)]
  /\ sellAll = SellAllIdle
  /\ sweep = SweepIdle

\* the setImmediate callback of a new-token event runs onNewTokenDetected
RunNewToken ==
  /\ immediates # <<>>
  /\ Head(immediates).kind = "newToken"
  /\ RunImmediate

\* the setImmediate callback of a buy event runs onExternalBuyDetected with
\* the subject and the trader of the event: sellToken(subject, amount) for
\* the amount getTokenAmount(subject) gives, unless the trader is the bot's
\* wallet or the amount is 0
RunExternalBuy(c) ==
  /\ immediates # <<>>
  /\ Head(immediates).kind = "externalBuy"
  /\ LET cb == Head(immediates)
         trader == tradeData(cb.id[1], cb.id[2]).trader
         amount == getTokenAmount(portfolio, cb.subject)
     IN  /\ externalBuyCalls' = [externalBuyCalls EXCEPT ![cb.id] = @ + 1]
         /\ IF autoSellOnOthersBuy /\ trader # Self /\ amount > 0
              THEN EnqueueJob(c, cb.subject, amount)
              ELSE /\ c = 1
                   /\ UNCHANGED traderVars
  /\ immediates' = Tail(immediates)
  /\ UNCHANGED <<isRunning, isMonitoring, processedEvents, duplicates, lastProcessedBlock,
                 lastBlockFile, blockWrites, reconnectAttempts, reconnectTimers,
                 errorsSinceNetwork, newTokenCalls, subs>>
  /\ UNCHANGED <<scannerVars, batchVars>>

\* a callback that stops the monitor when it throws
CallbackThrowsStops ==
  /\ immediates # <<>>
  /\ LET cb == Head(immediates)
     IN  IF cb.kind = "newToken"
           THEN /\ newTokenCalls' = [newTokenCalls EXCEPT ![cb.id] = @ + 1]
                /\ UNCHANGED externalBuyCalls
           ELSE /\ externalBuyCalls' = [externalBuyCalls EXCEPT ![cb.id] = @ + 1]
                /\ UNCHANGED newTokenCalls
  /\ immediates' = <<>>
  /\ isMonitoring' = FALSE
  /\ UNCHANGED <<isRunning, processedEvents, duplicates, lastProcessedBlock,
                 lastBlockFile, blockWrites, reconnectAttempts, reconnectTimers,
                 errorsSinceNetwork, subs>>
  /\ UNCHANGED <<traderVars, scannerVars, batchVars>>

\* the callback throws: the catch of the setImmediate wrapper logs the error
CallbackThrows ==
  /\ immediates # <<>>
  /\ LET cb == Head(immediates)
     IN  IF cb.kind = "newToken"
           THEN /\ newTokenCalls' = [newTokenCalls EXCEPT ![cb.id] = @ + 1]
                /\ UNCHANGED externalBuyCalls
           ELSE /\ externalBuyCalls' = [externalBuyCalls EXCEPT ![cb.id] = @ + 1]
                /\ UNCHANGED newTokenCalls
  /\ immediates' = Tail(immediates)
  /\ isMonitoring' = isMonitoring
  /\ UNCHANGED <<isRunning, processedEvents, duplicates, lastProcessedBlock,
                 lastBlockFile, blockWrites, reconnectAttempts, reconnectTimers,
                 errorsSinceNetwork, subs>>
  /\ UNCHANGED <<traderVars, scannerVars, batchVars>>

NextBot ==
  \/ StartMonitoring
  \/ \E txHash \in TxHashes, index \in LogIndexes : ProcessTradeEvent(txHash, index)
  \/ RunNewToken
  \/ \E c \in SellCallers : RunExternalBuy(c)
  \/ CallbackThrows
  \/ WorkerGapWake
  \/ PerformSellEstimate
  \/ PerformSellEstimateCatch
  \/ PerformSellSend
  \/ PerformSellWait
  \/ PerformSellRemove

SpecBot == InitBot /\ [][NextBot]_vars

\* ------------------------------------------- stopping and starting again
\* stopMonitoring() called while monitoring
StopMonitoring ==
  /\ isMonitoring
  /\ isMonitoring' = FALSE
  /\ subs' = stopMonitoring(subs)
  /\ UNCHANGED <<isRunning, processedEvents, duplicates, lastProcessedBlock, lastBlockFile,
                 blockWrites, reconnectAttempts, reconnectTimers, errorsSinceNetwork,
                 immediates, newTokenCalls, externalBuyCalls>>
  /\ UNCHANGED <<traderVars, scannerVars, batchVars>>

\* startMonitoring() called on a monitor that was stopped
StartMonitoringAgain ==
  /\ isRunning
  /\ ~isMonitoring
  /\ isMonitoring' = TRUE
  /\ subs' = setupEventListener(subs)
  /\ UNCHANGED <<isRunning, processedEvents, duplicates, lastProcessedBlock, lastBlockFile,
                 blockWrites, reconnectAttempts, reconnectTimers, errorsSinceNetwork,
                 immediates, newTokenCalls, externalBuyCalls>>
  /\ UNCHANGED <<traderVars, scannerVars, batchVars>>

NextSubscription ==
  \/ NextReconnect
  \/ StopMonitoring
  \/ StartMonitoringAgain
  \/ \E txHash \in TxHashes : ProcessTradeEvent(txHash, 0)
  \/ RunImmediate

SpecSubscription == InitMonitor /\ [][NextSubscription]_vars

\* --------------------------------------------------------- TokenScanner
\* configuration: twitterFollowersThreshold and buyAmountOnCondition at
\* their defaults, backroomTimeoutMinutes and backroomMaxAttempts set low
twitterFollowersThreshold == 10000
buyAmountOnCondition == 5
backroomTimeoutMinutes == 1
backroomMaxAttempts == 2

\* follower counts a profile lookup returns
FollowerCounts == {5000, 15000}
CreatorTwitter == "creator"

\* the two scanners of the sources: the one with the OR policy evicts by
\* age, the one with the AND policy by poll attempts
Variants == {"or", "and"}

\* a policy that asks for the followers and the verification in both scanners
AdmittedBoth(variant, followers, isBlue) ==
  followers > twitterFollowersThreshold /\ isBlue

Admitted(variant, followers, isBlue) ==
  LET passFollowers == followers > twitterFollowersThreshold
  IN  IF variant = "or"
        THEN passFollowers \/ isBlue
        ELSE passFollowers /\ (~requireBlueVerification \/ isBlue)

\* listCandidates({status}): the rows with one of the statuses, ORDER BY
\* createdAt ASC
RECURSIVE SortByCreatedAt(_, _)
SortByCreatedAt(db, keys) ==
  IF keys = {} THEN <<>>
  ELSE LET first == CHOOSE k \in keys :
                      \A j \in keys : db[k].createdAt <= db[j].createdAt
       IN  <<Convert(first, db[first])>> \o SortByCreatedAt(db, keys \ {first})

listCandidates(db, statuses) ==
  SortByCreatedAt(db, {k \in DOMAIN db : db[k].status \in statuses})

\* what handleCandidate reads of a listed candidate
Listed(c) == [address |-> c.address, curveIndex |-> c.curveIndex,
              createdAt |-> c.createdAt]

\* a pass that ends with the candidate in hand
NextCandidateAbort(p, list) ==
  scans' = [scans EXCEPT ![p] = [ScanIdle EXCEPT !.pc = "done"]]

\* the for loop of scanOnce goes on to the next listed candidate, or ends
NextCandidate(p, list) ==
  scans' = [scans EXCEPT ![p] =
    IF list = <<>>
      THEN [ScanIdle EXCEPT !.pc = "done"]
      ELSE [ScanIdle EXCEPT !.pc = "room", !.candidate = Listed(Head(list)),
                            !.list = Tail(list)]]

\* a pass that lists the pending candidates only
ScanStatusesPendingOnly == {"pending"}

\* listCandidates({ status: ["pending", "error"] }) of scanOnce
ScanStatuses == {"pending", "error"}

\* scanOnce up to the await of fetchRoom for the first candidate
BeginPass(p) ==
  /\ scans[p].pc = "idle"
  /\ NextCandidate(p, listCandidates(candidates, ScanStatuses))

\* loop(): the first pass, and each pass the timer set in the finally
\* block of the pass before it starts
ScanOnce(p) ==
  /\ \A q \in Passes : q < p => scans[q].pc = "done"
  /\ BeginPass(p)
  /\ UNCHANGED <<candidates, now, buyCalls, requireBlueVerification>>
  /\ UNCHANGED <<traderVars, monitorVars, batchVars>>

\* stop() and then start() while a pass is still awaiting: start() calls
\* loop() at once and the pass that was running goes on
Restart(p) ==
  /\ \A q \in Passes : q < p => scans[q].pc # "idle"
  /\ \E q \in Passes : q < p /\ scans[q].pc # "done"
  /\ BeginPass(p)
  /\ UNCHANGED <<candidates, now, buyCalls, requireBlueVerification>>
  /\ UNCHANGED <<traderVars, monitorVars, batchVars>>

\* Number(candidate.createdAt || now)
CreatedAt(candidate) == IF candidate.createdAt # 0 THEN candidate.createdAt ELSE now

\* the room lookup gave no room or a room without creatorTwitter
NoHandle(p, variant) ==
  LET c == scans[p].candidate
      currentAttempts == 0 + 1   \* listed candidates carry no backroomAttempts
      polled == updateCandidate(candidates, c.address,
                  [lastChecked |-> now, backroomAttempts |-> currentAttempts])
  IN  IF variant = "or"
        THEN \* removeCandidate is not a function of the store: the TypeError
             \* leaves handleCandidate and is caught by scanOnce
             candidates' = IF now - CreatedAt(c) >= backroomTimeoutMinutes
                             THEN candidates ELSE polled
        ELSE candidates' = IF currentAttempts >= backroomMaxAttempts
                             THEN markIgnored(polled, c.address,
                                              "backroom max attempts reached")
                             ELSE polled

\* fetchRoom returns
FetchRoomDone(p, variant) ==
  /\ scans[p].pc = "room"
  /\ \/ /\ NoHandle(p, variant)
        /\ NextCandidate(p, scans[p].list)
     \/ /\ scans' = [scans EXCEPT ![p].pc = "twitter"]
        /\ UNCHANGED candidates
  /\ UNCHANGED <<now, buyCalls, requireBlueVerification>>
  /\ UNCHANGED <<traderVars, monitorVars, batchVars>>

\* a patch that records the handle and leaves the status as it is
TwitterFailedKeepStatus ==
  [lastChecked |-> now, creatorTwitter |-> CreatorTwitter]

\* the patch written when fetchTwitterUser gave no profile
TwitterFailed ==
  [lastChecked |-> now, creatorTwitter |-> CreatorTwitter,
   status |-> "error", lastError |-> "twitter fetch failed"]

\* fetchTwitterUser returns: null, or a profile that is written back
FetchTwitterDone(p) ==
  /\ scans[p].pc = "twitter"
  /\ LET address == scans[p].candidate.address
     IN  \/ /\ candidates' = updateCandidate(candidates, address, TwitterFailed)
            /\ NextCandidate(p, scans[p].list)
         \/ \E followers \in FollowerCounts, isBlue \in BOOLEAN :
              /\ candidates' = updateCandidate(candidates, address,
                    [lastChecked |-> now, creatorTwitter |-> CreatorTwitter,
                     followers |-> followers, isBlue |-> isBlue])
              /\ scans' = [scans EXCEPT ![p].pc = "decide",
                                        ![p].followers = followers,
                                        ![p].isBlue = isBlue]
  /\ UNCHANGED <<now, buyCalls, requireBlueVerification>>
  /\ UNCHANGED <<traderVars, monitorVars, batchVars>>

\* the admission policy: buyToken is called, or the candidate is not wanted
Decide(p, variant) ==
  /\ scans[p].pc = "decide"
  /\ LET c == scans[p].candidate
     IN  IF Admitted(variant, scans[p].followers, scans[p].isBlue)
           THEN /\ buyCalls' = Append(buyCalls,
                      [pass |-> p, tokenAddress |-> c.address,
                       amount |-> buyAmountOnCondition, curveIndex |-> c.curveIndex,
                       res |-> NoResult])
                /\ scans' = [scans EXCEPT ![p].pc = "buy"]
                /\ UNCHANGED candidates
           ELSE /\ UNCHANGED buyCalls
                /\ NextCandidate(p, scans[p].list)
                /\ IF variant = "or"
                     THEN \* requireBlue is not defined in this scanner: the
                          \* ReferenceError is caught by scanOnce
                          UNCHANGED candidates
                     ELSE candidates' = markIgnored(candidates, c.address,
                                                    "criteria not met")
  /\ UNCHANGED <<now, requireBlueVerification>>
  /\ UNCHANGED <<traderVars, monitorVars, batchVars>>

\* results of the buyToken calls of the scanner; buyCalls keeps each call
\* with its arguments and, once it has returned, its result
ScannerBuyHash(n) == MaxBuys + MaxSells + n
BuyFailures == {BuyBusyReturn, Failure(ErrRolledBack)}

\* buyToken returns res: the position is in the ledger on success; the
\* candidate is marked bought, or error with the reason
ScannerBuyDone(p) ==
  /\ scans[p].pc = "buy"
  /\ LET address == scans[p].candidate.address
         call == CHOOSE i \in DOMAIN buyCalls :
                   buyCalls[i].pass = p /\ buyCalls[i].res = NoResult
     IN  \/ LET res == Success(ScannerBuyHash(call))
            IN  /\ portfolio' = addToken(portfolio, address, buyAmountOnCondition)
                /\ net' = [net EXCEPT ![address] = @ + buyAmountOnCondition]
                /\ buyCalls' = [buyCalls EXCEPT ![call].res = res]
                /\ candidates' = markBought(candidates, address, res.txHash)
         \/ \E res \in BuyFailures :
              /\ buyCalls' = [buyCalls EXCEPT ![call].res = res]
              /\ candidates' = updateCandidate(candidates, address,
                    [status |-> "error", lastChecked |-> now, lastError |-> res.error])
              /\ UNCHANGED <<portfolio, net>>
  /\ NextCandidate(p, scans[p].list)
  /\ UNCHANGED <<now, requireBlueVerification>>
  /\ UNCHANGED <<isTrading, sellQueue, isProcessingSellQueue, worker, buy, buyRet,
                 sell, deferred>>
  /\ UNCHANGED <<monitorVars, batchVars>>

\* a minute passes
Tick ==
  /\ now <= MaxNow
  /\ now' = now + 1
  /\ UNCHANGED <<candidates, scans, buyCalls, requireBlueVerification>>
  /\ UNCHANGED <<traderVars, monitorVars, batchVars>>

\* onNewTokenDetected called with the values of a first-buy event
NewTokenHandled(tokenAddress, txHash, multiplier) ==
  /\ candidates' = OnNewTokenDetected(tokenAddress, txHash, multiplier)
  /\ UNCHANGED <<scans, now, buyCalls, requireBlueVerification>>
  /\ UNCHANGED <<traderVars, monitorVars, batchVars>>

\* the monitor reports the first buy of a token: log 0 of a transaction
NewTokenDetected(txHash) ==
  NewTokenHandled(tradeData(txHash, 0).subject, txHash,
                  tradeData(txHash, 0).multiplier)

NextScanner(variant) ==
  \/ \E txHash \in TxHashes : NewTokenDetected(txHash)
  \/ \E p \in Passes : ScanOnce(p)
  \/ \E p \in Passes : FetchRoomDone(p, variant)
  \/ \E p \in Passes : FetchTwitterDone(p)
  \/ \E p \in Passes : Decide(p, variant)
  \/ \E p \in Passes : ScannerBuyDone(p)
  \/ Tick

\* the scanner with the OR policy and the scanner with the AND policy
NextScannerOr == NextScanner("or")
NextScannerAnd == NextScanner("and")

SpecScanner == InitMonitor /\ [][NextScannerOr]_vars

\* the scanner with the AND policy is run with the switch on and with it off
InitScanner ==
  /\ TraderIdle
  /\ MonitorIdle
  /\ \E requireBlue \in BOOLEAN : ScannerConfigured(requireBlue)

SpecScannerAnd == InitScanner /\ [][NextScannerAnd]_vars

\* onNewTokenDetected alone, over every multiplier and both letter cases
NextNewToken ==
  \/ \E tokenAddress \in Addresses \cup Tokens, txHash \in TxHashes,
        multiplier \in Multipliers :
          NewTokenHandled(tokenAddress, txHash, multiplier)
  \/ Tick

SpecNewToken == InitMonitor /\ [][NextNewToken]_vars

\* the scanner with the OR policy, stopped and started again during a pass
NextScannerRestart ==
  \/ NextScannerOr
  \/ \E p \in Passes : Restart(p)

SpecScannerRestart == InitMonitor /\ [][NextScannerRestart]_vars

\* ------------------------------------------------- auto-sell script
\* config.autoSellIntervalMinutes: the hold time after which a bought
\* candidate is sold
autoSellIntervalMinutes == 1
\* Number(c.amount || 1): the table has no amount column
SweepAmount == 1

\* MemoryPortfolio.setAmount: the balance under the lower-case key.  For the
\* lower-case addresses the script passes, getTokenAmount and removeToken of
\* MemoryPortfolio answer as those of the ledger above do.
setAmount(p, addr, amount) ==
  [k \in DOMAIN p \cup {toLowerCase(addr)} |->
     IF k = toLowerCase(addr) THEN amount ELSE p[k]]

\* MemoryPortfolio.isDeferredSell
isDeferredSell(d, addr) == toLowerCase(addr) \in d

\* Number(c.boughtAt || 0)
BoughtAt(c) == IF c.boughtAt = NullNumber THEN 0 ELSE c.boughtAt

\* a candidates table as the scanner leaves it: rows pending or bought
SweepRow(k, bought) ==
  LET row == NewRow(getAddress(k), 0, 1, 1, 1)
  IN  IF bought
        THEN [row EXCEPT !.status = "bought", !.boughtTxHash = 1, !.boughtAt = 1]
        ELSE row
SweepTables ==
  {[k \in S |-> SweepRow(k, k \in B)] : S \in SUBSET Tokens, B \in SUBSET Tokens}

\* the script after main() has built the store, the MemoryPortfolio and
\* the Trader; every bought token is held on chain
InitAutoSell ==
  /\ MonitorIdle
  /\ scans = [p \in Passes |-> ScanIdle]
  /\ now = 1
  /\ buyCalls = <<>>
  /\ requireBlueVerification = TRUE
  /\ candidates \in SweepTables
  /\ isTrading = FALSE
  /\ sellQueue = <<>>
  /\ isProcessingSellQueue = FALSE
  /\ worker = WorkerOff
  /\ buy = [c \in BuyCallers |-> BuyIdle]
  /\ buyRet = NoResult
  /\ sell = [c \in SellCallers |-> SellIdle]
  /\ portfolio = EmptyLedger
  /\ deferred = {}
  /\ net = [t \in Tokens |->
              IF t \in DOMAIN candidates /\ candidates[t].status = "bought"
                THEN SweepAmount ELSE 0]
  /\ sellAll = SellAllIdle
  /\ sweep = SweepIdle

\* the setInterval callback with running false: it reads Date.now() and
\* lists the bought candidates
AutoSellTick ==
  /\ sweep.pc = "idle"
  /\ sweep' = [SweepIdle EXCEPT !.pc = "loop", !.at = now,
                 !.list = listCandidates(candidates, {"bought"})]
  /\ UNCHANGED <<traderVars, monitorVars, scannerVars, sellAll>>

\* one candidate of the for loop up to setAmount: it is skipped when marked
\* deferred, without boughtAt or held for less than the hold time; when no
\* candidate is left the finally block clears running
AutoSellNext ==
  /\ sweep.pc = "loop"
  /\ IF sweep.list = <<>>
       THEN /\ sweep' = SweepIdle
            /\ UNCHANGED portfolio
       ELSE LET c == Head(sweep.list)
            IN  IF \/ isDeferredSell(deferred, c.address)
                   \/ BoughtAt(c) = 0
                   \/ sweep.at - BoughtAt(c) < autoSellIntervalMinutes
                  THEN /\ sweep' = [sweep EXCEPT !.list = Tail(@)]
                       /\ UNCHANGED portfolio
                  ELSE /\ sweep' = [sweep EXCEPT !.pc = "sell"]
                       /\ portfolio' = setAmount(portfolio, c.address, SweepAmount)
  /\ UNCHANGED <<isTrading, sellQueue, isProcessingSellQueue, worker, buy, buyRet,
                 sell, deferred, net>>
  /\ UNCHANGED <<monitorVars, scannerVars, sellAll>>

\* trader.sellToken(addrLower, amount), awaited
AutoSellSell ==
  /\ sweep.pc = "sell"
  /\ \E c \in SellCallers : sell[c].pc = "idle"
  /\ sweep' = [sweep EXCEPT !.pc = "awaiting", !.caller = FreeCaller]
  /\ EnqueueJob(FreeCaller, Head(sweep.list).address, SweepAmount)
  /\ UNCHANGED <<monitorVars, scannerVars, sellAll>>

\* sellToken has returned res: success marks the candidate ignored as sold,
\* an error naming insufficient shares marks it ignored with that reason
AutoSellResult ==
  /\ sweep.pc = "awaiting"
  /\ sell[sweep.caller].pc = "done"
  /\ LET res == sell[sweep.caller].ret
         addrLower == Head(sweep.list).address
     IN  candidates' =
           IF res.success
             THEN markIgnored(candidates, addrLower, "sold by auto_sell")
             ELSE IF Includes(res.error, PhraseInsufficientShares)
               THEN markIgnored(candidates, addrLower, PhraseInsufficientShares)
               ELSE candidates
  /\ sweep' = [sweep EXCEPT !.pc = "loop", !.list = Tail(@), !.caller = 0]
  /\ UNCHANGED <<scans, now, buyCalls, requireBlueVerification>>
  /\ UNCHANGED <<traderVars, monitorVars, sellAll>>

NextAutoSell ==
  \/ AutoSellTick
  \/ AutoSellNext
  \/ AutoSellSell
  \/ AutoSellResult
  \/ WorkerGapWake
  \/ PerformSellEstimate
  \/ PerformSellEstimateCatch
  \/ PerformSellSend
  \/ PerformSellWait
  \/ PerformSellRemove
  \/ Tick

SpecAutoSell == InitAutoSell /\ [][NextAutoSell]_vars

\* ================================================================ claims
\* number of transactions submitted and not yet confirmed or failed
InFlight ==
  Cardinality({c \in BuyCallers : buy[c].pc = "wait"})
    + Cardinality({c \in SellCallers : sell[c].pc = "wait"})
    + (IF worker.pc = "wait" THEN 1 ELSE 0)

\* C1: under any interleaving of buyToken and sellToken calls, at most one
\* transaction is in flight at any time.
C1_AtMostOneInFlight == InFlight <= 1

\* C2: a buyToken call made while isTrading is set returns a failure result
\* with the busy error at once, submits nothing, is not queued, and leaves
\* the flag, the sell queue and the ledger unchanged.
C2_BusyBuyRejected ==
  [][\A c \in BuyCallers :
       (buy[c].pc = "idle" /\ buy'[c].pc # "idle" /\ isTrading) =>
         /\ buy'[c].pc = "done"
         /\ buyRet'.shape = "object"
         /\ buyRet'.success = FALSE
         /\ buyRet'.error = ErrBusy
         /\ UNCHANGED <<isTrading, sellQueue, isProcessingSellQueue, worker,
                        sell, portfolio, deferred, net>>]_vars

\* the sell requests that are unresolved, and where each of them is
Executing(c) == worker.job.id = c
QueuedTimes(c) == Cardinality({i \in 1..Len(sellQueue) : sellQueue[i].id = c})

\* C3: every sellToken request is eventually resolved with a result (again
\* and again no request is unresolved, and a request is resolved exactly when
\* it has its result object); an
\* unresolved request is either the one job the worker executes or waits
\* once in the queue, so sells run one after another; successful sells
\* carry distinct transaction hashes.
C3_SellsResolveInTurn ==
  /\ []<>(\A c \in SellCallers : sell[c].pc # "waiting")
  /\ [](\A c \in SellCallers :
          sell[c].pc = "done" <=> sell[c].ret.shape = "object")
  /\ [](\A c \in SellCallers :
          sell[c].pc = "waiting" =>
            \/ Executing(c) /\ QueuedTimes(c) = 0
            \/ ~Executing(c) /\ QueuedTimes(c) = 1)
  /\ [](\A c, d \in SellCallers :
          (/\ c # d
           /\ sell[c].pc = "done" /\ sell[c].ret.success /\ sell[c].ret.txHash # NullTx
           /\ sell[d].pc = "done" /\ sell[d].ret.success /\ sell[d].ret.txHash # NullTx)
            => sell[c].ret.txHash # sell[d].ret.txHash)

\* two requests that were unresolved together, for tokens held once each,
\* have both succeeded with their own transaction
C3_Witness ==
  /\ \A c \in {1, 2} :
       sell[c].pc = "done" /\ sell[c].ret.success /\ sell[c].ret.txHash # NullTx
  /\ sell[1].ret.txHash # sell[2].ret.txHash
  /\ sell[2].concurrent
  /\ portfolio = EmptyLedger
  /\ \A c \in BuyCallers : buy[c].pc = "idle"

\* no addToken or removeToken is between its load and its save
Quiescent ==
  /\ \A c \in BuyCallers : buy[c].pc # "add"
  /\ \A c \in SellCallers : sell[c].pc # "remove"
  /\ worker.pc # "remove"

\* C4: for every token the held amount equals the confirmed successful buys
\* minus the confirmed successful sells (counted from the holding at start).
C4_LedgerMatchesConfirmed ==
  Quiescent => \A t \in Tokens : getTokenAmount(portfolio, t) = net[t]

\* C5: no ledger entry has a negative totalAmount, and no entry with
\* totalAmount 0 remains.
C5_LedgerEntriesPositive == \A t \in DOMAIN portfolio : portfolio[t] > 0

\* a confirmed sell has emptied the ledger
C5_Witness ==
  /\ portfolio = EmptyLedger
  /\ \E c \in SellCallers :
       sell[c].pc = "done" /\ sell[c].ret.success /\ sell[c].ret.txHash # NullTx

\* C6: a sell whose amount exceeds the amount held when _performSell checks
\* it is rejected with a failure result before gas estimation and
\* submission, and the ledger is unchanged.
C6_OversellRejected ==
  [][(/\ worker.pc = "perform"
      /\ worker' # worker
      /\ getTokenAmount(portfolio, worker.job.tokenAddress) < worker.job.amount) =>
        /\ sell'[worker.job.id].pc = "done"
        /\ sell'[worker.job.id].ret.success = FALSE
        /\ sell'[worker.job.id].ret.error = ErrHoldingShort
        /\ worker'.pc = "gapWait"
        /\ portfolio' = portfolio]_vars

\* a sell has been rejected by the holding check
C6_Witness ==
  \E c \in SellCallers :
    sell[c].pc = "done" /\ sell[c].ret.shape = "object"
      /\ sell[c].ret.error = ErrHoldingShort

\* C7: when estimateGas fails with 'cannot sell the last share' the sell
\* resolves with success = true and txHash = null, nothing is submitted,
\* the token is in the deferred-sell set and the ledger is unchanged.
C7_LastShareSoftSuccess ==
  [][(/\ worker.pc = "estimateCatch"
      /\ worker' # worker
      /\ worker.err.message = MsgLastShare) =>
        /\ sell'[worker.job.id].pc = "done"
        /\ sell'[worker.job.id].ret.success = TRUE
        /\ sell'[worker.job.id].ret.txHash = NullTx
        /\ worker'.pc = "gapWait"
        /\ worker.job.tokenAddress \in deferred'
        /\ portfolio' = portfolio]_vars

\* a sell has resolved as success without transaction; its token is marked
\* and still held
C7_Witness ==
  /\ \E c \in SellCallers :
       sell[c].pc = "done" /\ sell[c].ret.success /\ sell[c].ret.txHash = NullTx
  /\ \E t \in deferred : getTokenAmount(portfolio, t) > 0

\* C8: an external-buy event on a token marked deferred-sell clears the mark.
C8_ExternalBuyClearsDeferred ==
  [][\A c \in SellCallers, t \in Tokens :
       (t \in deferred /\ OnExternalBuyDetected(c, t, "other")) => t \notin deferred']_vars

\* C9: when estimateGas fails with 'insufficient shares' the sell resolves
\* with success = false and an error that the caller can tell from the
\* generic, busy and holding errors; nothing is submitted; the ledger and
\* the deferred-sell set are unchanged.
OtherSellErrors ==
  {ErrBusy, ErrNoHolding, ErrHoldingShort,
   ErrRolledBack, ErrSellFunds, MsgNetwork, MsgFunds}

C9_InsufficientSharesHardFailure ==
  [][(/\ worker.pc = "estimateCatch"
      /\ worker' # worker
      /\ worker.err.message = MsgInsufficientShares) =>
        /\ sell'[worker.job.id].pc = "done"
        /\ sell'[worker.job.id].ret.success = FALSE
        /\ Includes(sell'[worker.job.id].ret.error, PhraseInsufficientShares)
        /\ sell'[worker.job.id].ret.error \notin OtherSellErrors
        /\ \A e \in OtherSellErrors : ~Includes(e, PhraseInsufficientShares)
        /\ worker'.pc = "gapWait"
        /\ portfolio' = portfolio
        /\ deferred' = deferred]_vars

\* a sell has resolved with the insufficient-shares failure
C9_Witness ==
  \E c \in SellCallers :
    sell[c].pc = "done" /\ sell[c].ret.shape = "object"
      /\ sell[c].ret.error = "Insufficient shares"

\* C10: every value buyToken and sellToken return is a result object with a
\* success flag and, on failure, an error reason.
ResultObject(r) ==
  r.shape = "none" \/ (r.shape = "object" /\ (r.success \/ r.error # ""))

C10_StructuredResults ==
  ResultObject(buyRet) /\ \A c \in SellCallers : ResultObject(sell[c].ret)

\* callbacks of one kind for one event id, run or still scheduled
Scheduled(kind, id) ==
  Cardinality({i \in 1..Len(immediates) :
                 immediates[i].kind = kind /\ immediates[i].id = id})

\* C11: an event whose (transaction hash, log index) was seen before is
\* dropped: each callback is invoked at most once per event id, and the
\* delivery of a duplicate changes neither the checkpoint nor the scheduled
\* callbacks nor the candidates.
C11_DuplicateEventDropped ==
  /\ [](\A id \in EventIds :
          /\ newTokenCalls[id] + Scheduled("newToken", id) <= 1
          /\ externalBuyCalls[id] + Scheduled("externalBuy", id) <= 1)
  /\ [][duplicates' # duplicates =>
          UNCHANGED <<processedEvents, lastProcessedBlock, lastBlockFile,
                      blockWrites, immediates, newTokenCalls, externalBuyCalls,
                      candidates>>]_vars
  /\ [][immediates' # immediates \/ lastProcessedBlock' # lastProcessedBlock =>
          \/ processedEvents' # processedEvents
          \/ immediates # <<>> /\ immediates' = Tail(immediates)]_vars

\* a new-token event was delivered again after both its callbacks had run
C11_Witness ==
  /\ duplicates = 1
  /\ immediates = <<>>
  /\ \E id \in processedEvents :
       newTokenCalls[id] = 1 /\ externalBuyCalls[id] = 1
  /\ candidates # NoCandidates

\* C19: the reconnect counter never exceeds maxReconnectAttempts, and once
\* more than maxReconnectAttempts provider errors have been reported with
\* no network event in between, monitoring has stopped.
C19_ReconnectBounded ==
  /\ reconnectAttempts <= maxReconnectAttempts
  /\ errorsSinceNetwork > maxReconnectAttempts => ~isMonitoring

\* the block numbers of the events processed so far
ProcessedBlocks == {BlockNumber(id[1]) : id \in processedEvents}
Highest(blocks) == CHOOSE b \in blocks \cup {0} : \A c \in blocks \cup {0} : c <= b

\* C20: the checkpoint never decreases, in memory or in lastBlock.json; in
\* memory it is the highest block of the processed events, and so is the
\* file once no write is in progress.
C20_CheckpointMonotonic ==
  /\ [][lastProcessedBlock' >= lastProcessedBlock /\ lastBlockFile' >= lastBlockFile]_vars
  /\ [](lastProcessedBlock = Highest(ProcessedBlocks))
  /\ [](blockWrites = {} => lastBlockFile = Highest(ProcessedBlocks))

C13_NoHandleEvicted ==
  [][\A p \in Passes :
       (/\ scans[p].pc = "room"
        /\ scans'[p] # scans[p]
        /\ scans'[p].pc # "twitter"
        /\ now - CreatedAt(scans[p].candidate) >= backroomTimeoutMinutes)
       => /\ \/ scans[p].candidate.address \notin DOMAIN candidates'
             \/ candidates'[scans[p].candidate.address].status = "ignored"
          /\ buyCalls' = buyCalls]_vars

\* the buyToken calls of pass p
CallsOf(calls, p) == {i \in DOMAIN calls : calls[i].pass = p}

ListedBy(scan) ==
  {scan.list[i].address : i \in DOMAIN scan.list} \cup
  (IF scan.pc \in {"room", "twitter", "decide", "buy"}
     THEN {scan.candidate.address} ELSE {})

\* C15: a candidate whose profile does not satisfy the policy in force is
\* marked ignored, with a reason, in the pass that evaluated it; no buyToken
\* call is made for it and no later pass lists it.
C15_RejectedIgnored ==
  /\ [][\A p \in Passes :
          (/\ scans[p].pc = "decide"
           /\ scans'[p] # scans[p]
           /\ ~(scans[p].followers > twitterFollowersThreshold \/ scans[p].isBlue))
          => /\ candidates'[scans[p].candidate.address].status = "ignored"
             /\ candidates'[scans[p].candidate.address].lastError # NullText
             /\ buyCalls' = buyCalls]_vars
  /\ [][\A p \in Passes :
          (scans[p].pc = "idle" /\ scans'[p].pc # "idle")
          => \A k \in ListedBy(scans'[p]) : candidates[k].status # "ignored"]_vars

\* C16: a candidate that is bought or ignored is never set back to pending
\* or error, whatever runs: a scanner pass, a repeated new-token event or a
\* pass that overlaps another.
C16_StatusMonotonic ==
  [][\A k \in DOMAIN candidates :
       candidates[k].status \in {"bought", "ignored"}
       => /\ k \in DOMAIN candidates'
          /\ candidates'[k].status \notin {"pending", "error"}]_vars

\* C17: the store gives back what was last written: after a pass has written
\* the poll fields (lastChecked, poll-attempt count), the evaluation fields
\* (lastChecked, creator handle, follower count, verified flag), an error, or
\* the bought mark with its transaction hash, get returns the candidate with
\* each of these fields equal to the value written.
C17_StoreRoundTrip ==
  [][\A p \in Passes :
       LET a == scans[p].candidate.address
           got == get(candidates', a)
       IN  /\ (scans[p].pc = "room" /\ scans'[p] # scans[p] /\ scans'[p].pc # "twitter")
               => /\ got.lastChecked = now
                  /\ "backroomAttempts" \in DOMAIN got
                  /\ got.backroomAttempts = 1
           /\ (scans[p].pc = "twitter" /\ scans'[p].pc = "decide")
               => /\ got.lastChecked = now
                  /\ got.creatorTwitter = CreatorTwitter
                  /\ got.followers = scans'[p].followers
                  /\ got.isBlue = scans'[p].isBlue
           /\ (scans[p].pc = "twitter" /\ scans'[p] # scans[p] /\ scans'[p].pc # "decide")
               => /\ got.lastChecked = now
                  /\ got.status = "error"
                  /\ got.lastError = "twitter fetch failed"
           /\ (scans[p].pc = "buy" /\ scans'[p] # scans[p] /\ portfolio' # portfolio)
               => /\ got.status = "bought"
                  /\ \E i \in CallsOf(buyCalls', p) :
                        buyCalls'[i].res = Success(got.boughtTxHash)]_vars

\* C18: a position of the ledger is found under every letter-case form of
\* its token address: getTokenAmount and removeToken answer the same for the
\* checksummed form events deliver as for the lower-case form the scanner's
\* buy credits.
C18_LedgerKeysIgnoreCase ==
  \A a \in Addresses :
    /\ getTokenAmount(portfolio, a) = getTokenAmount(portfolio, toLowerCase(a))
    /\ \A amount \in 1..buyAmountOnCondition :
         removeTokenOk(portfolio, a, amount)
           <=> removeTokenOk(portfolio, toLowerCase(a), amount)

\* the job of sellToken call c, where it is queued or in the worker's hands
JobsOf(q, w, c) ==
  {q[i] : i \in {j \in DOMAIN q : q[j].id = c}} \cup
  (IF w.job.id = c THEN {w.job} ELSE {})

\* C21: sellAllTokens sells each token held at the call once, one after
\* another: the tokens it enumerates are the held ones without repetition,
\* its k-th sellToken call is for the k-th token and is made only when the
\* k-1 calls before it have returned, and the results are the results of
\* these calls, one per token, in the order of the enumeration.
C21_SellAllSequential ==
  /\ [][(sellAll.pc = "idle" /\ sellAll'.pc # "idle")
        => /\ {sellAll'.tokens[i] : i \in DOMAIN sellAll'.tokens} = DOMAIN portfolio
           /\ Len(sellAll'.tokens) = Cardinality(DOMAIN portfolio)]_vars
  /\ [][sellAll'.callers # sellAll.callers
        => LET k == Len(sellAll'.callers)
               c == sellAll'.callers[k]
           IN  /\ sellAll'.callers = Append(sellAll.callers, c)
               /\ sell[c].pc = "idle" /\ sell'[c].pc = "waiting"
               /\ Len(sellAll'.results) = k - 1
               /\ \A j \in JobsOf(sellQueue', worker', c) :
                     j.tokenAddress = sellAll'.tokens[k]
               /\ JobsOf(sellQueue', worker', c) # {}]_vars
  /\ [](/\ Len(sellAll.callers) <= Len(sellAll.tokens)
        /\ Len(sellAll.callers) - Len(sellAll.results)
             = IF sellAll.pc = "awaiting" THEN 1 ELSE 0
        /\ \A i \in DOMAIN sellAll.results :
             /\ sellAll.results[i].tokenAddress = sellAll.tokens[i]
             /\ sell[sellAll.callers[i]].pc = "done"
             /\ sellAll.results[i].result = sell[sellAll.callers[i]].ret
        /\ \A i, j \in DOMAIN sellAll.callers :
             sellAll.callers[i] = sellAll.callers[j] => i = j
        /\ sellAll.pc = "done" => Len(sellAll.results) = Len(sellAll.tokens))

C21_Witness ==
  /\ sellAll.pc = "done"
  /\ Len(sellAll.results) = 2
  /\ sellAll.results[1].tokenAddress # sellAll.results[2].tokenAddress
  /\ sellAll.results[1].result.success
  /\ ~sellAll.results[2].result.success

\* C22: one boolean switch governs the admission policy: with the switch on
\* a candidate is admitted (a buy is called for it) exactly when its
\* followers exceed the threshold and its profile is verified, with the
\* switch off exactly when its followers exceed the threshold or its profile
\* is verified.
C22_VerificationSwitch ==
  [][\A p \in Passes :
       (scans[p].pc = "decide" /\ scans'[p] # scans[p])
       => (scans'[p].pc = "buy"
             <=> IF requireBlueVerification
                   THEN scans[p].followers > twitterFollowersThreshold /\ scans[p].isBlue
                   ELSE scans[p].followers > twitterFollowersThreshold \/ scans[p].isBlue)]_vars

\* the candidates of a pass that are not handled to the end yet, in order
Remaining(scan) ==
  IF scan.pc \in {"room", "twitter", "decide", "buy"}
    THEN <<scan.candidate.address>> \o [i \in DOMAIN scan.list |-> scan.list[i].address]
    ELSE <<>>

\* C23: a pass handles every candidate it listed at its start: each step of
\* the pass leaves the candidates still to handle as they are or takes the
\* first one off, whether its handling ended normally or with an exception,
\* and the pass ends only when none is left.
C23_PassHandlesAll ==
  /\ [][\A p \in Passes :
          (scans[p].pc = "idle" /\ scans'[p].pc # "idle")
          => /\ {Remaining(scans'[p])[i] : i \in DOMAIN Remaining(scans'[p])}
                  = {k \in DOMAIN candidates : candidates[k].status \in {"pending", "error"}}
             /\ Len(Remaining(scans'[p]))
                  = Cardinality({k \in DOMAIN candidates :
                                   candidates[k].status \in {"pending", "error"}})]_vars
  /\ [][\A p \in Passes :
          scans[p].pc \notin {"idle", "done"}
          => \/ Remaining(scans'[p]) = Remaining(scans[p])
             \/ Remaining(scans'[p]) = Tail(Remaining(scans[p]))]_vars

\* the first candidate ended with the ReferenceError of the reject branch
\* and the second one was bought in the same pass
C23_Witness ==
  /\ scans[1].pc = "done"
  /\ scans[2].pc = "idle"
  /\ \E k1, k2 \in DOMAIN candidates :
       /\ candidates[k1].createdAt < candidates[k2].createdAt
       /\ candidates[k1].status = "pending"
       /\ candidates[k1].followers = 5000
       /\ candidates[k1].isBlue = 0
       /\ candidates[k2].status = "bought"

\* a buyToken call holds the flag it has set
BuyInProgress == \E c \in BuyCallers : buy[c].pc \in {"send", "wait", "add"}

\* C24: when the worker dequeues a job while an in-progress buy holds the
\* trading flag, the job goes back to the tail of the queue, is neither
\* executed nor resolved, and the flag stays held: through the back-off and
\* after it the flag is cleared by the buy alone.
C24_BusyBackOffKeepsFlag ==
  /\ [][(worker.pc # "busyWait" /\ worker'.pc = "busyWait")
        => /\ isTrading /\ isTrading'
           /\ sellQueue' # <<>>
           /\ \A c \in SellCallers : sell'[c].pc = "done" => sell[c].pc = "done"
           /\ worker'.job = NoJob]_vars
  /\ [][(worker.pc = "busyWait" /\ worker'.pc # "busyWait" /\ BuyInProgress)
        => isTrading']_vars

\* C25: a buyToken call that has set the trading flag clears it when it
\* returns, with a success, with a failure result or after a thrown error;
\* again and again no buy is in progress and the flag is clear, so every
\* such call returns and the flag is not set for ever.
C25_BuyReleasesFlag ==
  /\ [][\A c \in BuyCallers :
          (buy[c].pc \in {"send", "wait", "add"} /\ buy'[c].pc = "done")
          => ~isTrading']_vars
  /\ []<>(~isTrading /\ ~BuyInProgress)

\* a buy that held the flag has failed after its transaction was sent
C25_Witness ==
  /\ \E c \in BuyCallers : buy[c].pc = "done"
  /\ buyRet = Failure(ErrRolledBack)
  /\ ~isTrading
  /\ worker.pc = "off"

\* the jobs not yet resolved, in the order the worker will take them: the
\* job it holds, then the queue (callers are numbered in call order)
PendingJobs(q, w) ==
  (IF w.job.id = 0 THEN <<>> ELSE <<w.job.id>>) \o [i \in 1..Len(q) |-> q[i].id]
InCallOrder(ids) == \A i, j \in 1..Len(ids) : i < j => ids[i] < ids[j]

\* C26: sell jobs are executed in the order of their sellToken calls as long
\* as no job is pushed back because the executor is busy: only the step that
\* pushes a job back and sleeps 500 ms takes the unresolved jobs out of call
\* order, and a job that starts to execute while they are in call order
\* leaves no job of an earlier call unresolved.
C26_SellsInCallOrder ==
  /\ [][(/\ InCallOrder(PendingJobs(sellQueue, worker))
         /\ ~InCallOrder(PendingJobs(sellQueue', worker')))
        => (worker.pc # "busyWait" /\ worker'.pc = "busyWait")]_vars
  /\ [][(/\ worker.pc # "perform" /\ worker'.pc = "perform"
         /\ InCallOrder(PendingJobs(sellQueue, worker)))
        => \A d \in SellCallers :
             d < worker'.job.id => sell'[d].pc = "done"]_vars

\* with no buy ever called, the second of two requests that were unresolved
\* together executes after the first one was resolved
C26_Witness ==
  /\ \A c \in BuyCallers : buy[c].pc = "idle"
  /\ sell[1].pc = "done"
  /\ sell[2].pc = "waiting" /\ sell[2].concurrent
  /\ worker.pc = "perform" /\ worker.job.id = 2

\* the sellToken calls of sellAllTokens, all made without an amount
SellAllCallers(batch) == {batch.callers[i] : i \in 1..Len(batch.callers)}

\* C27: a job submitted without an amount sells the amount of the token
\* held at the moment it starts to execute, also after it was pushed back
\* because the executor was busy and the holding changed meanwhile.
C27_NullAmountSellsHolding ==
  [][(/\ worker.pc # "perform" /\ worker'.pc = "perform"
      /\ worker'.job.id \in SellAllCallers(sellAll'))
     => worker'.job.amount = getTokenAmount(portfolio', worker'.job.tokenAddress)]_vars

\* the buyToken call pass p is awaiting
AwaitedCall(calls, p) == CHOOSE i \in DOMAIN calls : calls[i].pass = p /\ calls[i].res = NoResult

\* C28: a candidate whose buyToken call fails, also with the busy result, is
\* left in status error with the reason of the failure; a pass that starts
\* lists every error candidate; a listed candidate that is admitted gets a
\* new buyToken call; and no call is made for a token after a call for it
\* has succeeded.
C28_FailedBuyRetried ==
  /\ [][\A p \in Passes :
          (scans[p].pc = "buy" /\ scans'[p].pc # "buy")
          => LET address == scans[p].candidate.address
                 res == buyCalls'[AwaitedCall(buyCalls, p)].res
             IN  ~res.success
                 => /\ get(candidates', address).status = "error"
                    /\ get(candidates', address).lastError = res.error
                    /\ res.error # NoError]_vars
  /\ [][\A p \in Passes :
          (scans[p].pc = "idle" /\ scans'[p].pc # "idle")
          => \A k \in DOMAIN candidates :
               candidates[k].status = "error"
               => k \in {toLowerCase(a) : a \in ListedBy(scans'[p])}]_vars
  /\ [][\A p \in Passes :
          (/\ scans[p].pc = "decide" /\ scans'[p].pc # "decide"
           /\ get(candidates, scans[p].candidate.address).status = "error"
           /\ Admitted("or", scans[p].followers, scans[p].isBlue))
          => /\ Len(buyCalls') = Len(buyCalls) + 1
             /\ buyCalls'[Len(buyCalls')].pass = p
             /\ buyCalls'[Len(buyCalls')].tokenAddress = scans[p].candidate.address
             /\ buyCalls'[Len(buyCalls')].res = NoResult]_vars
  /\ [](\A i, j \in DOMAIN buyCalls :
          (i < j /\ buyCalls[i].tokenAddress = buyCalls[j].tokenAddress)
          => (buyCalls[i].res # NoResult /\ ~buyCalls[i].res.success))

\* the first pass's call for a token failed because the executor was busy,
\* and the call of the second pass for the same token has succeeded
C28_Witness ==
  /\ Len(buyCalls) = 2
  /\ buyCalls[1].tokenAddress = buyCalls[2].tokenAddress
  /\ buyCalls[1].pass = 1 /\ buyCalls[1].res = BuyBusyReturn
  /\ buyCalls[2].pass = 2 /\ buyCalls[2].res # NoResult /\ buyCalls[2].res.success
  /\ get(candidates, buyCalls[2].tokenAddress).status = "bought"

\* C29: when the room lookup gave a handle and the profile lookup fails, the
\* candidate is set to status error with the reason "twitter fetch failed",
\* the handle is kept, the pass makes no buyToken call for it and goes on,
\* and the next pass that starts lists the candidate again.
C29_ProfileFailureRetried ==
  /\ [][\A p \in Passes :
          (scans[p].pc = "twitter" /\ scans'[p].pc \notin {"twitter", "decide"})
          => LET candidate == get(candidates', scans[p].candidate.address)
             IN  /\ candidate.status = "error"
                 /\ candidate.lastError = "twitter fetch failed"
                 /\ candidate.creatorTwitter = CreatorTwitter
                 /\ buyCalls' = buyCalls
                 /\ scans[p].candidate.address \notin ListedBy(scans'[p])]_vars
  /\ [][\A p \in Passes :
          (scans[p].pc = "idle" /\ scans'[p].pc # "idle")
          => \A k \in DOMAIN candidates :
               (/\ candidates[k].status = "error"
                /\ candidates[k].lastError = "twitter fetch failed")
               => k \in {toLowerCase(a) : a \in ListedBy(scans'[p])}]_vars

\* the profile lookup failed in the first pass, no buyToken call was made,
\* and the second pass has the candidate's profile and evaluates it
C29_Witness ==
  /\ scans[1].pc = "done"
  /\ scans[2].pc = "decide"
  /\ buyCalls = <<>>
  /\ get(candidates, scans[2].candidate.address).lastError = "twitter fetch failed"

\* the trade event with the given id, as the chain holds it
EventData(id) == tradeData(id[1], id[2])

C31_OneSubscription ==
  /\ [](IF isMonitoring
          THEN subs.trade <= 1 /\ subs.heartbeats <= 1
          ELSE subs.trade = 0 /\ subs.heartbeats = 0)
  /\ [][(~isMonitoring /\ ~isMonitoring') => Len(immediates') <= Len(immediates)]_vars

\* monitoring with one listener and one timer after a provider error whose
\* timer has run reconnect, an event processed and a probe still awaiting
C31_Witness ==
  /\ isMonitoring
  /\ subs.trade = 1 /\ subs.heartbeats = 1 /\ subs.probes = 1
  /\ errorsSinceNetwork > 0 /\ reconnectTimers = 0 /\ reconnectAttempts = Reconnect
  /\ processedEvents # {}

\* a callback runs: the first scheduled one leaves the queue
CallbackStep == immediates # <<>> /\ immediates' = Tail(immediates)

\* C32: while a callback is still running (a sell requested by an
\* external-buy callback awaits its turn or its confirmation) the monitor
\* accepts every event and processes a new one in full, scheduling its
\* callbacks behind the ones waiting; a callback that runs or throws leaves
\* the monitor monitoring and the callbacks scheduled after it in place.
C32_CallbacksDoNotBlock ==
  /\ [](isMonitoring /\ Len(immediates) + 2 <= MaxImmediates
        => \A txHash \in TxHashes, index \in LogIndexes :
             ENABLED ProcessTradeEvent(txHash, index))
  /\ [][\A id \in EventIds :
          (id \notin processedEvents /\ id \in processedEvents')
          => /\ immediates' = immediates \o NewTokenCallback(id, tradeData(id[1], id[2]))
                                         \o ExternalBuyCallback(id, tradeData(id[1], id[2]))
             /\ lastProcessedBlock' >= BlockNumber(id[1])
             /\ UNCHANGED <<sell, sellQueue, worker>>]_vars
  /\ [][CallbackStep
        => /\ isMonitoring' = isMonitoring
           /\ subs' = subs
           /\ processedEvents' = processedEvents]_vars

\* a new-token callback has thrown (it was invoked and no candidate was
\* added), the sell an external-buy callback requested is still awaited,
\* and a later event was processed with its callbacks scheduled
C32_Witness ==
  /\ newTokenCalls[<<1, 0>>] = 1 /\ candidates = NoCandidates
  /\ sell[1].pc = "waiting" /\ worker.job.id = 1
  /\ <<2, 0>> \in processedEvents
  /\ Len(immediates) = 2

\* the amount of the token the ledger holds, whatever the letter case of
\* the key it is stored under
HeldAmount(p, subject) ==
  LET keys == {k \in DOMAIN p : toLowerCase(k) = toLowerCase(subject)}
  IN  IF keys = {} THEN 0 ELSE p[CHOOSE k \in keys : TRUE]

\* C33: when the callback of a buy event made by somebody else runs for a
\* token the bot holds, a sell of the whole holding of that token is
\* requested; for a buy by the bot's own wallet, or of a token the bot does
\* not hold, no sell is requested.
C33_ExternalBuySellsHolding ==
  [][\A c \in SellCallers :
       RunExternalBuy(c)
       => LET data == tradeData(Head(immediates).id[1], Head(immediates).id[2])
              held == HeldAmount(portfolio, data.subject)
          IN  IF data.trader # Self /\ held > 0
                THEN /\ sell[c].pc = "idle" /\ sell'[c].pc = "waiting"
                     /\ \E job \in JobsOf(sellQueue', worker', c) :
                          /\ toLowerCase(job.tokenAddress) = toLowerCase(data.subject)
                          /\ job.amount = held
                ELSE sell' = sell /\ sellQueue' = sellQueue]_vars

\* the creator of a token: the trader of its first buy (supply 1)
Creator(subject) ==
  LET first == CHOOSE id \in EventIds :
                 /\ tradeData(id[1], id[2]).subject = subject
                 /\ tradeData(id[1], id[2]).isBuy
                 /\ tradeData(id[1], id[2]).supply = 1
  IN  tradeData(first[1], first[2]).trader

\* C34: a sell event made by the creator of its token is classified as a
\* creator sell: when the monitor processes it, the creator-sell callback is
\* scheduled for it (which requests the sell of the bot's holding).
C34_CreatorSellReported ==
  [][\A id \in EventIds :
       (/\ id \notin processedEvents /\ id \in processedEvents'
        /\ ~tradeData(id[1], id[2]).isBuy
        /\ tradeData(id[1], id[2]).trader = Creator(tradeData(id[1], id[2]).subject))
       => \E i \in 1..Len(immediates') :
            immediates'[i].id = id /\ immediates'[i].kind = "creatorSell"]_vars

\* the entries of the ledger for the tokens other than t
OtherEntries(p, t) == [k \in DOMAIN p \ {t} |-> p[k]]

\* C35: ledger writes to different keys do not lose each other: the save of
\* an addToken or of a removeToken for one token leaves the stored entry of
\* every other token as it is, also when the mutation overlaps another one.
C35_OtherKeysKept ==
  /\ [][\A c \in BuyCallers :
          (buy[c].pc = "add" /\ buy'[c].pc # "add")
          => OtherEntries(portfolio', buy[c].tokenAddress)
               = OtherEntries(portfolio, buy[c].tokenAddress)]_vars
  /\ [][(worker.pc = "remove" /\ worker'.pc # "remove")
        => OtherEntries(portfolio', worker.job.tokenAddress)
             = OtherEntries(portfolio, worker.job.tokenAddress)]_vars

\* the passes that have started and not ended
RunningPasses == {p \in Passes : scans[p].pc \notin {"idle", "done"}}

\* C36: under any sequence of start() and stop() calls, stop() followed by
\* start() while a pass is still running included, at most one scan pass
\* executes at a time.
C36_OnePassAtATime == Cardinality(RunningPasses) <= 1

\* C37: the result of each sellToken request is delivered exactly once: an
\* unresolved request has exactly one job, in the queue or in the worker's
\* hands, also after the job was pushed back because the executor was busy;
\* a resolved request has no job left, so it is not executed again, and its
\* result never changes.
C37_ResolvedExactlyOnce ==
  /\ [](\A c \in SellCallers :
          /\ sell[c].pc = "waiting"
             => QueuedTimes(c) + (IF Executing(c) THEN 1 ELSE 0) = 1
          /\ sell[c].pc \in {"idle", "done"}
             => QueuedTimes(c) = 0 /\ ~Executing(c))
  /\ [][\A c \in SellCallers :
          sell[c].pc = "done" => sell'[c] = sell[c]]_vars
  /\ [][(worker.pc # "busyWait" /\ worker'.pc = "busyWait")
        => /\ sellQueue' # <<>>
           /\ sell[sellQueue'[Len(sellQueue')].id].pc \in {"idle", "waiting"}
           /\ sell'[sellQueue'[Len(sellQueue')].id].pc = "waiting"]_vars

\* the job of the first request was pushed back because a buy held the flag,
\* and the request is unresolved with its one job in the queue
C37_Witness ==
  /\ worker.pc = "busyWait"
  /\ BuyInProgress
  /\ sell[1].pc = "waiting"
  /\ QueuedTimes(1) = 1

\* the buyToken calls for a token that have returned success
SuccessfulCalls(calls, tokenAddress) ==
  {i \in DOMAIN calls :
     /\ toLowerCase(calls[i].tokenAddress) = toLowerCase(tokenAddress)
     /\ calls[i].res # NoResult
     /\ calls[i].res.success}

\* C38: no candidate is bought more than once: across the passes at most
\* one buyToken call for a candidate returns success, and the scanner makes
\* no buyToken call for a candidate whose status is bought or ignored.
C38_BoughtOnce ==
  /\ [](\A i \in DOMAIN buyCalls :
          Cardinality(SuccessfulCalls(buyCalls, buyCalls[i].tokenAddress)) <= 1)
  /\ [][Len(buyCalls') > Len(buyCalls)
        => get(candidates, buyCalls'[Len(buyCalls')].tokenAddress).status
             \notin {"bought", "ignored"}]_vars

\* C39: the auto-sell sweep marks a bought candidate ignored with the reason
\* 'sold by auto_sell' only when the sellToken call it awaited returned the
\* hash of a sell transaction confirmed for that token; when the call ended
\* without a transaction the candidate keeps the status bought and a later
\* sweep can sell it.
C39_SoldOnlyAfterConfirmedSell ==
  [][(sweep.pc = "awaiting" /\ sweep'.pc = "loop") =>
       LET res == sell[sweep.caller].ret
           k == Head(sweep.list).address
       IN  IF res.success /\ res.txHash # NullTx
             THEN /\ net[k] = 0
                  /\ candidates'[k].status = "ignored"
                  /\ candidates'[k].lastError = "sold by auto_sell"
             ELSE /\ candidates'[k].status = "bought"
                  /\ candidates'[k] = candidates[k]]_vars

\* C40: addCandidate for an address whose lower-case form is a key of the
\* table, given in either letter case and with any event values, returns
\* the table as it was; a step that runs onNewTokenDetected leaves every
\* existing row, status, evaluation fields and createdAt included, unchanged,
\* so a bought or ignored candidate does not return to pending.
C40_ReAddIsNoOp ==
  /\ [](\A a \in Addresses \cup Tokens, txHash \in TxHashes, m \in Multipliers :
          toLowerCase(a) \in DOMAIN candidates
            => addCandidate(candidates, a, multiplierToCurveIndex(m), m, txHash, now)
                 = candidates)
  /\ [][(scans' = scans /\ buyCalls' = buyCalls /\ now' = now)
          => \A k \in DOMAIN candidates : candidates'[k] = candidates[k]]_vars

\* a candidate bought or ignored in an earlier minute is detected again:
\* the handler leaves the table as it is
C40_Witness ==
  \E k \in DOMAIN candidates, txHash \in TxHashes :
    /\ candidates[k].status \in {"bought", "ignored"}
    /\ candidates[k].createdAt < now
    /\ toLowerCase(tradeData(txHash, 0).subject) = k
    /\ OnNewTokenDetected(tradeData(txHash, 0).subject, txHash,
                          tradeData(txHash, 0).multiplier) = candidates
====
